---- MODULE Spec2Model ----
(***************************************************************************)
(* State-machine model of the batting game of src/src/App.tsx (component   *)
(* App): the auto-pitch effect, handleSwing, the 16 ms game loop, the      *)
(* at-bat bookkeeping (handleStrike, walk, processHitResult) and the       *)
(* tournament progression (handleTournamentWin, restart, continue).        *)
(*                                                                         *)
(* Conventions                                                             *)
(*  - Lengths are integers in tenths of a canvas pixel (Px(530) = 5300);   *)
(*    velocities are tenths of a pixel per tick.  Products of JavaScript   *)
(*    doubles are truncated to that grid.                                  *)
(*  - Angles are integers in hundredths of pi ("centi-pi"); SinC/CosC are  *)
(*    Math.sin/Math.cos scaled by 10000.                                   *)
(*  - Pitch.progress counts ticks: the source's progress is 0.02 * that    *)
(*    count, accumulated in IEEE doubles (see the Prog... operators).      *)
(*  - null is the empty sequence, an object o is <<o>>.                    *)
(*  - React state updates are applied in the order they are issued; a      *)
(*    handler is one atomic step.  What the closures of the last render    *)
(*    see (handleSwing, the key handler, the effect dependencies) is the   *)
(*    variable rendered, refreshed by the step Render.                     *)
(***************************************************************************)
EXTENDS Integers, Sequences, FiniteSets, TLC

VARIABLES
    gameState,            \* useState<GameState>                    (l. 82)
    pitch,                \* useState<Pitch | null>                 (l. 102)
    ball,                 \* useState<Ball | null>                  (l. 103)
    balls,                \* useState(0)                            (l. 107)
    strikes,              \* useState(0)                            (l. 108)
    gameStarted,          \* useState(false)                        (l. 110)
    lastJudgedPitchRef,   \* useRef<number>(0)                      (l. 126)
    lastProcessedBallRef, \* useRef<number>(0)                      (l. 127)
    pitchTimer,           \* the pending auto-pitch setTimeout, or null
    advanceTimers,        \* pending setTimeout(..., 3000) of handleTournamentWin, oldest first
    rendered,             \* the state captured by the closures of the last render
    queuedTick,           \* a game-loop pitch updater queued but not yet run by React
    unrendered,           \* handlers run since the last render
    pitchesThrown,        \* number of pitches created so far
    event,                \* history: what the last step did
    judgements,           \* history: id of the last pitch -> number of judgements it produced
    resolutions,          \* history: id of the last ball -> number of times it was resolved
    contact,              \* history: the state before the swing that made the ball in flight
    firstRoundCpuScore,   \* history: the cpuScore round 1 of the tier was played with
    staleTimers           \* history: the pending timers armed before the last reset

vars == <<gameState, pitch, ball, balls, strikes, gameStarted, lastJudgedPitchRef,
          lastProcessedBallRef, pitchTimer, advanceTimers, rendered, queuedTick,
          unrendered, pitchesThrown, event, judgements, resolutions, contact,
          firstRoundCpuScore, staleTimers>>

-----------------------------------------------------------------------------
(* Bounds of the model *)

\* pitches created in one run of the model
MaxPitches == 2
\* consecutive executions of the interval callback folded into one Tick step
TicksPerStep == 9
\* swing inputs handled by stale closures: after another handler, before React
\* has rendered again
MaxStaleSwings == 1

\* Math.random() of the pitch type selection, in hundredths
TypeDraws == {0, 85, 95}
\* targetXOffset in pixels: inside the strike zone band, and an intentional ball
TargetOffsets == {0, -38}
\* (Math.random() - 0.5), in hundredths
RandCentered == {0}
\* randomVariation of the contact angle, in centi-pi (|.| < 5)
AngleVariations == {-4, 0, 4}
\* speed of the batted ball, tenths of a pixel per tick (8 + Math.random() * 4)
BallSpeeds == {100}
\* Math.random() * 15 of the strong break, tenths of a pixel
BreakExtras == {70}

-----------------------------------------------------------------------------
(* Arithmetic *)

null == <<>>

Px(n) == n * 10

Abs(n) == IF n < 0 THEN -n ELSE n

Sign(n) == IF n > 0 THEN 1 ELSE IF n < 0 THEN -1 ELSE 0

\* JavaScript number division followed by truncation to the grid
TruncDiv(a, b) == IF a >= 0 THEN a \div b ELSE -((-a) \div b)

SinTable ==
  << 314, 628, 941, 1253, 1564, 1874, 2181, 2487, 2790, 3090,
     3387, 3681, 3971, 4258, 4540, 4818, 5090, 5358, 5621, 5878,
     6129, 6374, 6613, 6845, 7071, 7290, 7501, 7705, 7902, 8090,
     8271, 8443, 8607, 8763, 8910, 9048, 9178, 9298, 9409, 9511,
     9603, 9686, 9759, 9823, 9877, 9921, 9956, 9980, 9995, 10000 >>

\* 10000 * Math.sin(a * pi / 100), a in 0..50
SinQ(a) == IF a = 0 THEN 0 ELSE SinTable[a]

\* 10000 * Math.sin(a * pi / 100)
SinC(a) ==
  LET m == a % 200
  IN  IF m <= 50 THEN SinQ(m)
      ELSE IF m <= 100 THEN SinQ(100 - m)
      ELSE IF m <= 150 THEN -SinQ(m - 100)
      ELSE -SinQ(200 - m)

\* 10000 * Math.cos(a * pi / 100)
CosC(a) == SinC(a + 50)

\* Math.atan2(dy, dx) >= a * pi / 100, for 0 < a < 100
AngleGE(dy, dx, a) ==
  IF dy < 0 THEN FALSE
  ELSE IF dy = 0 THEN dx < 0
  ELSE dy * CosC(a) - dx * SinC(a) >= 0

\* Math.atan2(dy, dx) > a * pi / 100, for 0 < a < 100
AngleGT(dy, dx, a) ==
  IF dy < 0 THEN FALSE
  ELSE IF dy = 0 THEN dx < 0
  ELSE dy * CosC(a) - dx * SinC(a) > 0

\* Math.atan2(dy, dx) < a * pi / 100
AngleLT(dy, dx, a) == ~AngleGE(dy, dx, a)

\* Math.atan2(dy, dx) <= a * pi / 100
AngleLE(dy, dx, a) == ~AngleGT(dy, dx, a)

-----------------------------------------------------------------------------
(* Program constants *)

maxBalls == 4
maxStrikes == 3

TournamentTypes == {"koshien", "npb", "mlb"}

emptyBases == <<FALSE, FALSE, FALSE>>

zeroInnings == <<0, 0, 0, 0, 0, 0, 0, 0, 0>>

\* the gameState of restartGame, backToTop and of the first render; the random
\* display-only fields (cpuInningScores, hits, errors) are not modelled
freshGameState(type, cpuScore) ==
  [ round |-> 1, inning |-> 9, outs |-> 0, playerScore |-> 0, cpuScore |-> cpuScore,
    bases |-> emptyBases, tournamentRound |-> 1, tournamentType |-> type,
    isGameOver |-> FALSE, isWinner |-> FALSE,
    playerInningScores |-> zeroInnings, showVictory |-> FALSE ]

initialGameState == freshGameState("koshien", 3)

baseScore(type) == IF type = "koshien" THEN 3 ELSE IF type = "npb" THEN 4 ELSE 5

-----------------------------------------------------------------------------
(* Tournament progression: handleTournamentWin and its delayed callbacks *)

\* a setTimeout of handleTournamentWin: the callback it arms, and the game that was
\* won when it was armed (the callback itself reads neither)
timeout(kind, state) ==
  [ kind |-> kind, tournamentType |-> state.tournamentType,
    tournamentRound |-> state.tournamentRound, cpuScore |-> state.cpuScore ]

\* handleTournamentWin without the final-victory branch: a win in round 5 of mlb
\* continues in the current tournament
handleTournamentWinWithoutFinal(state) ==
  IF state.tournamentType = "koshien" /\ state.tournamentRound >= 5
    THEN [state |-> [state EXCEPT !.showVictory = TRUE], timer |-> timeout("npb", state)]
  ELSE IF state.tournamentType = "npb" /\ state.tournamentRound >= 5
    THEN [state |-> [state EXCEPT !.showVictory = TRUE], timer |-> timeout("mlb", state)]
  ELSE [state |-> [state EXCEPT !.showVictory = TRUE], timer |-> timeout("next", state)]

\* handleTournamentWin(state): the state it returns and the setTimeout it arms
\* (kind "none" when it arms none)
handleTournamentWin(state) ==
  IF state.tournamentType = "koshien" /\ state.tournamentRound >= 5
    THEN [state |-> [state EXCEPT !.showVictory = TRUE], timer |-> timeout("npb", state)]
  ELSE IF state.tournamentType = "npb" /\ state.tournamentRound >= 5
    THEN [state |-> [state EXCEPT !.showVictory = TRUE], timer |-> timeout("mlb", state)]
  ELSE IF state.tournamentType = "mlb" /\ state.tournamentRound >= 5
    THEN [state |-> [state EXCEPT !.isGameOver = TRUE, !.isWinner = TRUE,
                                  !.showVictory = TRUE],
          timer |-> timeout("none", state)]
  ELSE [state |-> [state EXCEPT !.showVictory = TRUE], timer |-> timeout("next", state)]

armTimer(timers, timer) == IF timer.kind = "none" THEN timers ELSE Append(timers, timer)

\* the setGameState updater of the delayed callback armed as kind
advanceGameState(prev, kind) ==
  IF kind = "npb" THEN
    [prev EXCEPT !.tournamentType = "npb", !.tournamentRound = 1, !.round = 1,
                 !.inning = 9, !.outs = 0, !.playerScore = 0, !.cpuScore = 6,
                 !.bases = emptyBases, !.playerInningScores = zeroInnings,
                 !.showVictory = FALSE]
  ELSE IF kind = "mlb" THEN
    [prev EXCEPT !.tournamentType = "mlb", !.tournamentRound = 1, !.round = 1,
                 !.inning = 9, !.outs = 0, !.playerScore = 0, !.cpuScore = 5,
                 !.bases = emptyBases, !.playerInningScores = zeroInnings,
                 !.showVictory = FALSE]
  ELSE
    [prev EXCEPT !.tournamentRound = prev.tournamentRound + 1, !.round = 1,
                 !.inning = 9, !.outs = 0, !.playerScore = 0,
                 !.cpuScore = baseScore(prev.tournamentType) + prev.tournamentRound,
                 !.bases = emptyBases, !.playerInningScores = zeroInnings,
                 !.showVictory = FALSE]

-----------------------------------------------------------------------------
(* At-bat bookkeeping.  The operators below work on a store s: the record  *)
(* of the React state, the refs, the armed timers and the history that one *)
(* handler reads and writes.                                               *)

note(s, what) == [s EXCEPT !.log = Append(s.log, what)]

\* handleStrike without its setBalls(0): the out is recorded, the balls stay
handleStrikeKeepsBalls(s) ==
  LET prev == s.gameState
      s1 == note([s EXCEPT !.strikes = 0], "strikeout")
  IN  IF prev.outs + 1 >= 3
        THEN [s1 EXCEPT !.gameState = [prev EXCEPT !.isGameOver = TRUE, !.isWinner = FALSE]]
        ELSE [s1 EXCEPT !.gameState = [prev EXCEPT !.outs = prev.outs + 1]]

\* handleStrike with playerScore < cpuScore at the third out: a tie is not a loss
handleStrikeTieWins(s) ==
  LET prev == s.gameState
      newOuts == prev.outs + 1
      won == handleTournamentWin(prev)
      s1 == note([s EXCEPT !.balls = 0, !.strikes = 0], "strikeout")
  IN  IF newOuts >= 3
        THEN IF prev.playerScore < prev.cpuScore
               THEN [s1 EXCEPT !.gameState =
                                  [prev EXCEPT !.isGameOver = TRUE, !.isWinner = FALSE]]
               ELSE note([s1 EXCEPT !.gameState = won.state,
                                    !.advanceTimers = armTimer(s1.advanceTimers, won.timer)],
                         "win")
        ELSE [s1 EXCEPT !.gameState = [prev EXCEPT !.outs = newOuts]]

\* handleStrike that records the third out before it ends the half-inning
handleStrikeStoresThirdOut(s) ==
  LET prev == [s.gameState EXCEPT !.outs = s.gameState.outs + 1]
      won == handleTournamentWin(prev)
      s1 == note([s EXCEPT !.balls = 0, !.strikes = 0], "strikeout")
  IN  IF prev.outs >= 3
        THEN IF prev.playerScore <= prev.cpuScore
               THEN [s1 EXCEPT !.gameState =
                                  [prev EXCEPT !.isGameOver = TRUE, !.isWinner = FALSE]]
               ELSE note([s1 EXCEPT !.gameState = won.state,
                                    !.advanceTimers = armTimer(s1.advanceTimers, won.timer)],
                         "win")
        ELSE [s1 EXCEPT !.gameState = prev]

\* handleStrike: the count is reset and the out is recorded
handleStrike(s) ==
  LET prev == s.gameState
      newOuts == prev.outs + 1
      won == handleTournamentWin(prev)
      s1 == note([s EXCEPT !.balls = 0, !.strikes = 0], "strikeout")
  IN  IF newOuts >= 3
        THEN IF prev.playerScore <= prev.cpuScore
               THEN [s1 EXCEPT !.gameState =
                                  [prev EXCEPT !.isGameOver = TRUE, !.isWinner = FALSE]]
               ELSE note([s1 EXCEPT !.gameState = won.state,
                                    !.advanceTimers = armTimer(s1.advanceTimers, won.timer)],
                         "win")
        ELSE [s1 EXCEPT !.gameState = [prev EXCEPT !.outs = newOuts]]

\* setStrikes(prev => ...) of a swinging miss and of a looking strike
addStrike(s) ==
  LET newStrikes == s.strikes + 1
  IN  IF newStrikes >= maxStrikes
        THEN [handleStrike(s) EXCEPT !.strikes = 0]
        ELSE [s EXCEPT !.strikes = newStrikes]

\* a walk that moves every runner one base, forced or not
walkEveryRunner(gs) ==
  LET b == gs.bases
  IN  [gs EXCEPT !.playerScore = IF b[3] THEN gs.playerScore + 1 ELSE gs.playerScore,
                 !.bases = <<TRUE, b[1], b[2]>>]

\* the setGameState updater of a walk
walkGameState(gs) ==
  LET b == gs.bases
      newScore == IF b[3] /\ b[2] /\ b[1] THEN gs.playerScore + 1 ELSE gs.playerScore
      third == IF b[2] /\ b[1] THEN TRUE ELSE b[3]
      second == IF b[1] THEN TRUE ELSE b[2]
  IN  [gs EXCEPT !.playerScore = newScore, !.bases = <<TRUE, second, third>>]

\* setBalls(b => b + 1): a looking ball without the walk at maxBalls
addBallUncapped(s) == [s EXCEPT !.balls = s.balls + 1]

\* a looking ball whose walk leaves out setStrikes(0): the strikes stay
addBallKeepsStrikes(s) ==
  LET newBalls == s.balls + 1
  IN  IF newBalls >= maxBalls
        THEN note([s EXCEPT !.gameState = walkGameState(s.gameState), !.balls = 0], "walk")
        ELSE [s EXCEPT !.balls = newBalls]

\* setBalls(b => ...) of a looking ball
addBall(s) ==
  LET newBalls == s.balls + 1
  IN  IF newBalls >= maxBalls
        THEN note([s EXCEPT !.gameState = walkGameState(s.gameState),
                            !.strikes = 0, !.balls = 0], "walk")
        ELSE [s EXCEPT !.balls = newBalls]

count(b) == (IF b[1] THEN 1 ELSE 0) + (IF b[2] THEN 1 ELSE 0) + (IF b[3] THEN 1 ELSE 0)

\* scoredThisPlay with a double that scores the runner on third only
scoredThisPlayDoubleFromThird(result, b) ==
  IF result = "H" THEN (IF b[3] THEN 1 ELSE 0)
  ELSE IF result = "2B" THEN (IF b[3] THEN 1 ELSE 0)
  ELSE IF result = "3B" THEN count(b)
  ELSE IF result = "HR" THEN count(b) + 1
  ELSE 0

\* scoredThisPlay of processHitResult
scoredThisPlay(result, b) ==
  IF result = "H" THEN (IF b[3] THEN 1 ELSE 0)
  ELSE IF result = "2B" THEN (IF b[3] THEN 1 ELSE 0) + (IF b[2] THEN 1 ELSE 0)
  ELSE IF result = "3B" THEN count(b)
  ELSE IF result = "HR" THEN count(b) + 1
  ELSE 0

\* newBases with a single on which the runner on third holds
newBasesThirdHolds(result, b) ==
  IF result = "H" THEN <<TRUE, b[1], b[2] \/ b[3]>>
  ELSE IF result = "2B" THEN <<FALSE, TRUE, b[1]>>
  ELSE IF result = "3B" THEN <<FALSE, FALSE, TRUE>>
  ELSE IF result = "HR" THEN <<FALSE, FALSE, FALSE>>
  ELSE b

\* newBases with a fielded out that clears the bases
newBasesOutClears(result, b) ==
  IF result = "H" THEN <<TRUE, b[1], b[2]>>
  ELSE IF result = "2B" THEN <<FALSE, TRUE, b[1]>>
  ELSE IF result = "3B" THEN <<FALSE, FALSE, TRUE>>
  ELSE IF result = "HR" THEN <<FALSE, FALSE, FALSE>>
  ELSE emptyBases

\* newBases of processHitResult
newBases(result, b) ==
  IF result = "H" THEN <<TRUE, b[1], b[2]>>
  ELSE IF result = "2B" THEN <<FALSE, TRUE, b[1]>>
  ELSE IF result = "3B" THEN <<FALSE, FALSE, TRUE>>
  ELSE IF result = "HR" THEN <<FALSE, FALSE, FALSE>>
  ELSE b

\* processHitResult(result): the count is reset and the result is applied
processHitResult(s, result) ==
  LET prev == s.gameState
      scored == scoredThisPlay(result, prev.bases)
      newScore == prev.playerScore + scored
      newOuts == IF result = "OUT" THEN prev.outs + 1 ELSE prev.outs
      innings == [prev.playerInningScores EXCEPT ![9] = @ + scored]
      withScore == [prev EXCEPT !.playerScore = newScore, !.playerInningScores = innings]
      inPlay == [withScore EXCEPT !.bases = newBases(result, prev.bases), !.outs = newOuts]
      s1 == note([s EXCEPT !.balls = 0, !.strikes = 0], result)
      win(state) ==
        LET won == handleTournamentWin(state)
        IN  note([s1 EXCEPT !.gameState = won.state,
                            !.advanceTimers = armTimer(s1.advanceTimers, won.timer)],
                 "win")
  IN  IF newOuts >= 3
        THEN IF newScore <= prev.cpuScore
               THEN [s1 EXCEPT !.gameState =
                                 [withScore EXCEPT !.isGameOver = TRUE, !.isWinner = FALSE]]
               ELSE win(withScore)
        ELSE IF newScore > prev.cpuScore
               THEN win(inPlay)
               ELSE [s1 EXCEPT !.gameState = inPlay]

-----------------------------------------------------------------------------
(* Zone classifier *)

\* fence zones with a gap: the first H band starts at 0.36 pi
zonesWithGap ==
  << <<25, 34, "OUT">>, <<36, 40, "H">>, <<40, 45, "2B">>, <<45, 48, "3B">>,
     <<48, 52, "HR">>, <<52, 55, "3B">>, <<55, 60, "2B">>, <<60, 66, "H">>,
     <<66, 75, "OUT">> >>

\* fence zones with a wide home run band, 0.47 pi to 0.53 pi
zonesWideCenter ==
  << <<25, 34, "OUT">>, <<34, 40, "H">>, <<40, 45, "2B">>, <<45, 47, "3B">>,
     <<47, 53, "HR">>, <<53, 55, "3B">>, <<55, 60, "2B">>, <<60, 66, "H">>,
     <<66, 75, "OUT">> >>

\* the nine fence zones: <<minAngle, maxAngle, result>>, angles in centi-pi
zones ==
  << <<25, 34, "OUT">>, <<34, 40, "H">>, <<40, 45, "2B">>, <<45, 48, "3B">>,
     <<48, 52, "HR">>, <<52, 55, "3B">>, <<55, 60, "2B">>, <<60, 66, "H">>,
     <<66, 75, "OUT">> >>

RECURSIVE firstZone(_, _, _)
\* for (const zone of zones) if (angle >= zone.minAngle && angle <= zone.maxAngle) return
firstZone(dy, dx, i) ==
  IF i > Len(zones) THEN "OUT"
  ELSE IF AngleGE(dy, dx, zones[i][1]) /\ AngleLE(dy, dx, zones[i][2]) THEN zones[i][3]
  ELSE firstZone(dy, dx, i + 1)

\* checkHitResult(x, y)
checkHitResult(x, y) ==
  LET dx == x - Px(500)
      dy == Px(530) - y
  IN  IF dx * dx + dy * dy < Px(400) * Px(400) THEN "OUT"
      ELSE IF AngleLT(dy, dx, 25) \/ AngleGT(dy, dx, 75) THEN "OUT"
      ELSE firstZone(dy, dx, 1)

-----------------------------------------------------------------------------
(* Pitch Selector: the callback of the auto-pitch timer *)

\* pitchTypes, by the tournament type and round captured when the timer was armed
pitchTypes(tournamentType, difficulty) ==
  IF tournamentType = "koshien" THEN
    IF difficulty = 1 THEN <<"straight">>
    ELSE <<"straight", "curve-left", "curve-right", "changeup">>
         \o (IF difficulty >= 3 THEN <<"slider", "sinker", "gyroball">> ELSE <<>>)
  ELSE IF tournamentType = "npb" THEN
    <<"straight", "fast", "curve-left", "curve-right", "changeup", "slider", "sinker",
      "gyroball", "knuckleball", "cutter">>
  ELSE
    <<"fast", "curve-left", "curve-right", "changeup", "slider", "sinker", "gyroball",
      "fastball", "knuckleball", "cutter", "vanishing", "stopping">>

\* pitchTypes[Math.floor(Math.random() * pitchTypes.length)], draw in hundredths
selectedType(tournamentType, difficulty, draw) ==
  LET types == pitchTypes(tournamentType, difficulty)
  IN  types[((draw * Len(types)) \div 100) + 1]

\* speedMultiplier, times 10
speedMultiplier(tournamentType) ==
  IF tournamentType = "koshien" THEN 10 ELSE IF tournamentType = "npb" THEN 12 ELSE 14

\* vy of the selected type: base speed (tenths of a pixel) times the multiplier
pitchVy(type, tournamentType, difficulty) ==
  LET m == speedMultiplier(tournamentType)
      base == CASE type = "straight" -> 40
                [] type \in {"curve-left", "curve-right", "knuckleball"} -> 35
                [] type = "fast" -> 70
                [] type = "fastball" -> 80 + 3 * difficulty
                [] type \in {"slider", "changeup", "vanishing", "stopping"} -> 50
                [] type = "sinker" -> 60
                [] type = "gyroball" -> 20
                [] type = "cutter" -> 75
  IN  TruncDiv(base * m, 10)

\* vx of the selected type; off is targetXOffset (pixels), r is
\* (Math.random() - 0.5) in hundredths; distanceY is 200
pitchVx(type, tournamentType, difficulty, off, r) ==
  LET m == speedMultiplier(tournamentType)
      \* (bias + jitter + (off / distanceY) * lead) * speedMultiplier, the addends
      \* in thousandths of a pixel
      broken(bias, jitter, lead) ==
        TruncDiv((bias + jitter + TruncDiv(off * lead * 1000, 200)) * m, 1000)
  IN  CASE type = "curve-left" -> broken(-800, r * 4, 35)
        [] type = "curve-right" -> broken(800, r * 4, 35)
        [] type = "slider" ->
             broken(IF difficulty >= 4 \/ tournamentType # "koshien" THEN 2500 ELSE 1500,
                    r * 6, 50)
        [] type = "sinker" -> broken(500, r * 4, 60)
        [] type = "cutter" -> broken(1200, r * 3, 60)
        [] OTHER -> TruncDiv(off * pitchVy(type, tournamentType, difficulty), 200)

\* the Pitch handed to setPitch; isVisible, isStopped and stopTimer, undefined in
\* the source for the types that never read them, are TRUE, FALSE and 0 here
newPitch(type, tournamentType, difficulty, off, r, pitchId) ==
  [ x |-> Px(500), y |-> Px(510 - 200),
    vx |-> pitchVx(type, tournamentType, difficulty, off, r),
    vy |-> pitchVy(type, tournamentType, difficulty),
    type |-> type, active |-> TRUE, startX |-> Px(500), startY |-> Px(510 - 200),
    progress |-> 0, initialVy |-> pitchVy(type, tournamentType, difficulty),
    hasBeenJudged |-> FALSE, id |-> pitchId,
    isVisible |-> TRUE, isStopped |-> FALSE, stopTimer |-> 0 ]

-----------------------------------------------------------------------------
(* Trajectory Generator and looking judgement: the setPitch updater of the *)
(* game loop.  k is newProgress in ticks (newProgress = 0.02 * k).         *)

\* newProgress >= 0.25, the sum of k doubles 0.02
ProgAtLeastQuarter(k) == k >= 13
\* newProgress >= 0.25 && newProgress <= 0.35
ProgInStopZone(k) == k >= 13 /\ k <= 17
\* newProgress >= 0.4 && newProgress <= 0.7 (the 35th sum is 0.7000000000000003)
ProgInVanishZone(k) == k >= 20 /\ k <= 34

\* the position and flags the updater computes for prev; extra is
\* Math.random() * 15 of the strong break, in tenths of a pixel
moved(prev, extra) ==
  LET k == prev.progress + 1
      targetX == Px(500)
      targetY == Px(530 - 20)
      linear == [prev EXCEPT !.x = prev.x + prev.vx, !.y = prev.y + prev.vy, !.progress = k]
      lineY == prev.startY + TruncDiv((targetY - prev.startY) * k, 50)
  IN  CASE prev.type \in {"straight", "fast", "fastball"} -> linear
        [] prev.type = "changeup" ->
             [linear EXCEPT !.y = prev.y + (IF ProgAtLeastQuarter(k)
                                              THEN TruncDiv(prev.initialVy, 2)
                                              ELSE prev.initialVy)]
        [] prev.type = "gyroball" ->
             [linear EXCEPT !.y = prev.y + prev.initialVy
                                   + TruncDiv((prev.initialVy * 5 - prev.initialVy) * k * k, 2500)]
        [] prev.type = "knuckleball" ->
             [linear EXCEPT !.x = prev.x + prev.vx + TruncDiv(25 * SinC(16 * k), 10000)]
        [] prev.type = "cutter" ->
             [linear EXCEPT !.y = lineY,
                            !.x = targetX + Sign(prev.vx) * TruncDiv(Px(60) * k * k * k, 125000)]
        [] prev.type = "vanishing" ->
             [linear EXCEPT !.isVisible = ~ProgInVanishZone(k)]
        [] prev.type = "stopping" ->
             IF ProgInStopZone(k) /\ ~prev.isStopped
               THEN [prev EXCEPT !.progress = k, !.isStopped = TRUE, !.stopTimer = 0]
             ELSE IF prev.isStopped /\ prev.stopTimer < 20
               THEN [prev EXCEPT !.progress = k, !.stopTimer = prev.stopTimer + 1]
             ELSE IF prev.isStopped /\ prev.stopTimer >= 20
               THEN [linear EXCEPT !.isStopped = FALSE]
             ELSE linear
        [] OTHER ->
             IF Abs(prev.vx) > 15
               THEN [linear EXCEPT !.y = lineY,
                                   !.x = targetX + Sign(prev.vx)
                                                   * TruncDiv((Px(90) + extra) * k * k, 2500)]
               ELSE [linear EXCEPT !.y = lineY,
                                   !.x = targetX + TruncDiv(SinC(2 * k) * prev.vx * 40, 10000)]

\* shouldJudge && notJudged, without the comparison with lastJudgedPitchRef
mustJudgeUnguarded(prev, next, lastJudged) ==
  /\ next.y > Px(530 - 20) + Px(20)
  /\ ~prev.hasBeenJudged

\* shouldJudge && notJudged && notLastJudged
mustJudge(prev, next, lastJudged) ==
  /\ next.y > Px(530 - 20) + Px(20)
  /\ ~prev.hasBeenJudged
  /\ lastJudged # prev.id

bump(f, id) == IF id \in DOMAIN f THEN [f EXCEPT ![id] = @ + 1] ELSE f @@ (id :> 1)

\* the setPitch updater that returns a stopped pitch as it is: the stop timer is
\* not counted
pitchUpdaterHoldsStopped(s, prev, extra) ==
  IF prev = null \/ ~prev[1].active \/ prev[1].isStopped THEN [s EXCEPT !.pitch = prev]
  ELSE
    LET next == moved(prev[1], extra)
    IN  IF mustJudge(prev[1], next, s.lastJudgedPitchRef)
          THEN LET s1 == [s EXCEPT !.lastJudgedPitchRef = prev[1].id,
                                   !.judgements = bump(s.judgements, prev[1].id),
                                   !.pitch = null]
                   isOverHomePlate == next.x >= Px(485) /\ next.x <= Px(515)
               IN  IF isOverHomePlate
                     THEN addStrike(note(s1, "lookingStrike"))
                     ELSE addBall(note(s1, "lookingBall"))
          ELSE [s EXCEPT !.pitch = <<next>>]

\* the setPitch updater with a plate 80 pixels wide: every x in 460..540 is a strike
pitchUpdaterWidePlate(s, prev, extra) ==
  IF prev = null \/ ~prev[1].active THEN [s EXCEPT !.pitch = prev]
  ELSE
    LET next == moved(prev[1], extra)
    IN  IF mustJudge(prev[1], next, s.lastJudgedPitchRef)
          THEN LET s1 == [s EXCEPT !.lastJudgedPitchRef = prev[1].id,
                                   !.judgements = bump(s.judgements, prev[1].id),
                                   !.pitch = null]
                   isOverHomePlate == next.x >= Px(460) /\ next.x <= Px(540)
               IN  IF isOverHomePlate
                     THEN addStrike(note(s1, "lookingStrike"))
                     ELSE addBall(note(s1, "lookingBall"))
          ELSE [s EXCEPT !.pitch = <<next>>]

\* setPitch(prev => ...) of the game loop, run on prev (null, or <<pitch>>) with
\* the refs and the count of the store s; the store's pitch becomes its result
pitchUpdater(s, prev, extra) ==
  IF prev = null \/ ~prev[1].active THEN [s EXCEPT !.pitch = prev]
  ELSE
    LET next == moved(prev[1], extra)
    IN  IF mustJudge(prev[1], next, s.lastJudgedPitchRef)
          THEN LET s1 == [s EXCEPT !.lastJudgedPitchRef = prev[1].id,
                                   !.judgements = bump(s.judgements, prev[1].id),
                                   !.pitch = null]
                   isOverHomePlate == next.x >= Px(485) /\ next.x <= Px(515)
               IN  IF isOverHomePlate
                     THEN addStrike(note(s1, "lookingStrike"))
                     ELSE addBall(note(s1, "lookingBall"))
          ELSE [s EXCEPT !.pitch = <<next>>]

-----------------------------------------------------------------------------
(* Ball Flight Model: the setBall updater of the game loop *)

\* the setBall updater that does not return null at the fence: the result is
\* applied and the ball, marked as scored, stays where it is
ballUpdaterStaysAtFence(s) ==
  IF s.ball = null \/ ~s.ball[1].active THEN s
  ELSE
    LET prev == s.ball[1]
        newX == prev.x + prev.vx
        newY == prev.y + prev.vy
        dx == newX - prev.startX
        dy == prev.startY - newY
        distance2 == dx * dx + dy * dy
        fresh == ~prev.hasScored /\ s.lastProcessedBallRef # prev.id
        marked == [s EXCEPT !.lastProcessedBallRef = prev.id,
                            !.resolutions = bump(s.resolutions, prev.id)]
    IN  IF distance2 >= Px(490) * Px(490) \/ newY < 0 \/ newX < 0 \/ newX > Px(1000)
          THEN [(IF fresh THEN processHitResult(marked, checkHitResult(newX, newY)) ELSE s)
                  EXCEPT !.ball = <<[prev EXCEPT !.hasScored = TRUE]>>]
        ELSE IF (AngleLT(dy, dx, 25) \/ AngleGT(dy, dx, 75)) /\ distance2 > Px(300) * Px(300)
          THEN [(IF fresh
                   THEN note([marked EXCEPT !.strikes = IF s.strikes < 2 THEN s.strikes + 1
                                                                          ELSE s.strikes],
                             "foul")
                   ELSE s)
                  EXCEPT !.ball = null]
        ELSE [s EXCEPT !.ball = <<[prev EXCEPT !.x = newX, !.y = newY]>>]

\* the setBall updater with a foul branch that applies the foul and lets the ball
\* fly on
ballUpdaterFoulFliesOn(s) ==
  IF s.ball = null \/ ~s.ball[1].active THEN s
  ELSE
    LET prev == s.ball[1]
        newX == prev.x + prev.vx
        newY == prev.y + prev.vy
        dx == newX - prev.startX
        dy == prev.startY - newY
        distance2 == dx * dx + dy * dy
        fresh == ~prev.hasScored /\ s.lastProcessedBallRef # prev.id
        marked == [s EXCEPT !.lastProcessedBallRef = prev.id,
                            !.resolutions = bump(s.resolutions, prev.id)]
        flying == <<[prev EXCEPT !.x = newX, !.y = newY]>>
    IN  IF distance2 >= Px(490) * Px(490) \/ newY < 0 \/ newX < 0 \/ newX > Px(1000)
          THEN [(IF fresh THEN processHitResult(marked, checkHitResult(newX, newY)) ELSE s)
                  EXCEPT !.ball = null]
        ELSE IF (AngleLT(dy, dx, 25) \/ AngleGT(dy, dx, 75)) /\ distance2 > Px(300) * Px(300)
          THEN [(IF fresh
                   THEN note([marked EXCEPT !.strikes = IF s.strikes < 2 THEN s.strikes + 1
                                                                          ELSE s.strikes],
                             "foul")
                   ELSE s)
                  EXCEPT !.ball = flying]
        ELSE [s EXCEPT !.ball = flying]

\* setBall(prev => ...) of the game loop
ballUpdater(s) ==
  IF s.ball = null \/ ~s.ball[1].active THEN s
  ELSE
    LET prev == s.ball[1]
        newX == prev.x + prev.vx
        newY == prev.y + prev.vy
        dx == newX - prev.startX
        dy == prev.startY - newY
        distance2 == dx * dx + dy * dy
        fresh == ~prev.hasScored /\ s.lastProcessedBallRef # prev.id
        marked == [s EXCEPT !.lastProcessedBallRef = prev.id,
                            !.resolutions = bump(s.resolutions, prev.id)]
    IN  IF distance2 >= Px(490) * Px(490) \/ newY < 0 \/ newX < 0 \/ newX > Px(1000)
          THEN [(IF fresh THEN processHitResult(marked, checkHitResult(newX, newY)) ELSE s)
                  EXCEPT !.ball = null]
        ELSE IF (AngleLT(dy, dx, 25) \/ AngleGT(dy, dx, 75)) /\ distance2 > Px(300) * Px(300)
          THEN [(IF fresh
                   THEN note([marked EXCEPT !.strikes = IF s.strikes < 2 THEN s.strikes + 1
                                                                          ELSE s.strikes],
                             "foul")
                   ELSE s)
                  EXCEPT !.ball = null]
        ELSE [s EXCEPT !.ball = <<[prev EXCEPT !.x = newX, !.y = newY]>>]

\* one execution of the setInterval callback: setPitch(...) and then setBall(...)
gameLoop(s, extra) == ballUpdater(pitchUpdater(s, s.pitch, extra))

RECURSIVE gameLoopTimes(_, _, _)
\* n consecutive executions of the callback, ending early with the execution that
\* judges a pitch or resolves a ball
gameLoopTimes(s, n, extra) ==
  IF n = 0 \/ s.log # <<>> THEN s ELSE gameLoopTimes(gameLoop(s, extra), n - 1, extra)

RECURSIVE pitchUpdaterTimes(_, _, _, _)
\* n queued setPitch updaters of the game loop, run by React one after the other
pitchUpdaterTimes(s, prev, n, extra) ==
  IF n = 0 \/ s.log # <<>> THEN s
  ELSE LET s1 == pitchUpdater(s, prev, extra)
       IN  pitchUpdaterTimes(s1, s1.pitch, n - 1, extra)

-----------------------------------------------------------------------------
(* Contact Judge: handleSwing *)

\* the Ball handed to setBall; variation is randomVariation in centi-pi
newBall(p, variation, speed, ballId) ==
  LET homeY == Px(530 - 20)
      \* (0.5 - timing) * 0.833, timing = (pitch.y - (homeY - 100)) / 120
      baseAngle == TruncDiv((Px(60) - (p.y - (homeY - Px(100)))) * 833, 10 * Px(120))
      angle == baseAngle + variation
  IN  [ x |-> p.x, y |-> p.y,
        vx |-> TruncDiv(speed * SinC(angle), 10000),
        vy |-> -TruncDiv(speed * CosC(angle), 10000),
        active |-> TRUE, hasScored |-> FALSE, startX |-> p.x, startY |-> p.y,
        id |-> ballId ]

\* hitZone of handleSwing
hitZone(p) ==
  LET homeY == Px(530 - 20)
  IN  p.y >= homeY - Px(100) /\ p.y <= homeY + Px(20) /\ Abs(p.x - Px(500)) < Px(15)

\* handleSwing whose miss leaves out setPitch(null): the pitch flies on
handleSwingMissKeepsPitch(s, seenPitch, seenBall, variation, speed, now) ==
  IF seenPitch = null \/ ~seenPitch[1].active \/ seenBall # null
    THEN note(s, "swingIgnored")
  ELSE
    LET p == seenPitch[1]
        s1 == [s EXCEPT !.lastJudgedPitchRef = p.id,
                        !.judgements = bump(s.judgements, p.id)]
    IN  IF hitZone(p)
          THEN note([s1 EXCEPT !.ball = <<newBall(p, variation, speed, now)>>,
                               !.pitch = null, !.balls = 0, !.strikes = 0],
                    "swingHit")
          ELSE addStrike(note(s1, "swingMiss"))

\* handleSwing, a closure over the pitch and the ball of the last render
handleSwing(s, seenPitch, seenBall, variation, speed, now) ==
  IF seenPitch = null \/ ~seenPitch[1].active \/ seenBall # null
    THEN note(s, "swingIgnored")
  ELSE
    LET p == seenPitch[1]
        s1 == [s EXCEPT !.lastJudgedPitchRef = p.id,
                        !.judgements = bump(s.judgements, p.id),
                        !.pitch = null]
    IN  IF hitZone(p)
          THEN note([s1 EXCEPT !.ball = <<newBall(p, variation, speed, now)>>,
                               !.balls = 0, !.strikes = 0],
                    "swingHit")
          ELSE addStrike(note(s1, "swingMiss"))

-----------------------------------------------------------------------------
(* The component: state, render, effects, handlers *)

noContact ==
  [id |-> 0, pitchId |-> 0, balls |-> 0, strikes |-> 0, gameState |-> initialGameState]

\* what one handler reads and writes
store ==
  [ pitch |-> pitch, ball |-> ball, balls |-> balls, strikes |-> strikes,
    gameState |-> gameState, lastJudgedPitchRef |-> lastJudgedPitchRef,
    lastProcessedBallRef |-> lastProcessedBallRef, advanceTimers |-> advanceTimers,
    judgements |-> judgements, resolutions |-> resolutions, log |-> <<>> ]

\* the handler step leaves the store s behind; the history of the contact ends
\* with its ball
Commit(s, step) ==
  /\ contact' = IF s.ball = null THEN noContact
                ELSE IF s.ball # ball
                          /\ (ball = null \/ s.ball[1].id # ball[1].id)
                  THEN [id |-> s.ball[1].id, pitchId |-> s.lastJudgedPitchRef,
                        balls |-> balls, strikes |-> strikes, gameState |-> gameState]
                ELSE contact
  /\ pitch' = s.pitch
  /\ ball' = s.ball
  /\ balls' = s.balls
  /\ strikes' = s.strikes
  /\ gameState' = s.gameState
  /\ lastJudgedPitchRef' = s.lastJudgedPitchRef
  /\ lastProcessedBallRef' = s.lastProcessedBallRef
  /\ advanceTimers' = s.advanceTimers
  /\ judgements' = s.judgements
  /\ resolutions' = s.resolutions
  /\ event' = [step |-> step, log |-> s.log]
  /\ UNCHANGED firstRoundCpuScore

\* the values a render hands to the closures it creates
snapshot(s, started) ==
  [ pitch |-> s.pitch, ball |-> s.ball, isGameOver |-> s.gameState.isGameOver,
    isWinner |-> s.gameState.isWinner, showVictory |-> s.gameState.showVictory,
    tournamentRound |-> s.gameState.tournamentRound,
    tournamentType |-> s.gameState.tournamentType, gameStarted |-> started ]

\* the dependency array of the auto-pitch effect (playPitchSound never changes)
autoPitchDeps(snap) ==
  <<snap.pitch, snap.isGameOver, snap.showVictory, snap.tournamentRound, snap.gameStarted>>

\* the auto-pitch effect without its cleanup: a timer armed by an earlier render
\* stays armed when the guard returns early
autoPitchEffectWithoutCleanup(old, new, timer) ==
  IF autoPitchDeps(old) = autoPitchDeps(new) THEN timer
  ELSE IF ~new.gameStarted \/ new.isGameOver \/ new.showVictory \/ new.pitch # null THEN timer
  ELSE <<[tournamentType |-> new.tournamentType, difficulty |-> new.tournamentRound]>>

\* the auto-pitch effect of a render: with unchanged dependencies the armed timer
\* stays; otherwise the cleanup clears it and the effect arms a new one unless its
\* guard returns early.  The timer's closure keeps the tournament type and round.
autoPitchEffect(old, new, timer) ==
  IF autoPitchDeps(old) = autoPitchDeps(new) THEN timer
  ELSE IF ~new.gameStarted \/ new.isGameOver \/ new.showVictory \/ new.pitch # null THEN null
  ELSE <<[tournamentType |-> new.tournamentType, difficulty |-> new.tournamentRound]>>

\* The base configurations
Bases == {<<b1, b2, b3>> : b1 \in BOOLEAN, b2 \in BOOLEAN, b3 \in BOOLEAN}

\* the gameState of a half-inning in progress
sessionGameState(type, round, cpuScore, playerScore, outs, bases) ==
  [freshGameState(type, cpuScore) EXCEPT
     !.tournamentRound = round, !.playerScore = playerScore, !.outs = outs,
     !.bases = bases, !.playerInningScores = [zeroInnings EXCEPT ![9] = playerScore]]

\* Half-innings in progress of the first koshien game (cpuScore 3, l. 87) at a
\* full count with no out: every base configuration, the player level or one run
\* behind
FullCountSessions ==
  { [gameState |-> sessionGameState("koshien", 1, 3, playerScore, 0, bases),
     balls |-> 3, strikes |-> 2] :
      playerScore \in {2, 3}, bases \in Bases }

\* ... at a full count with two outs, the bases empty or loaded
TwoOutSessions ==
  { [gameState |-> sessionGameState("koshien", 1, 3, playerScore, 2, bases),
     balls |-> 3, strikes |-> 2] :
      playerScore \in {2, 3}, bases \in {emptyBases, <<TRUE, TRUE, TRUE>>} }

\* ... and at a fresh and at a middle count, level, with no out
OtherCountSessions ==
  { [gameState |-> sessionGameState("koshien", 1, 3, 3, 0, bases),
     balls |-> c[1], strikes |-> c[2]] :
      bases \in {emptyBases, <<TRUE, TRUE, TRUE>>}, c \in {<<0, 0>>, <<2, 1>>} }

\* ... and two strikes after a bases-loaded walk at two outs that put the player
\* ahead (the walk ends nothing and leaves the scoreboard entry of the inning as
\* it is, l. 1725-1748), in round 1 and in round 4 (cpuScore 3 + 3, l. 1134)
LeadSessions ==
  { [gameState |-> [sessionGameState("koshien", g[1], g[2], g[2] + 1, 2,
                                     <<TRUE, TRUE, TRUE>>)
                      EXCEPT !.playerInningScores = [zeroInnings EXCEPT ![9] = g[2]]],
     balls |-> 0, strikes |-> 2] :
      g \in {<<1, 3>>, <<4, 6>>} }

\* Level first rounds with the bases loaded, no out and a fresh count, played
\* against a cpuScore other than the base score: round 1 of npb after the tier
\* advance (cpuScore 6, l. 1064), round 1 of koshien after a continue that drew 5
\* (l. 1862)
HarderFirstRoundSessions ==
  { [gameState |-> sessionGameState(g[1], 1, g[2], g[2], 0, <<TRUE, TRUE, TRUE>>),
     balls |-> 0, strikes |-> 0] :
      g \in {<<"npb", 6>>, <<"koshien", 5>>} }

\* Level games with two outs, the bases empty and a fresh count in later rounds:
\* cpuScore is baseScore + (round - 1) of the "next" callback (l. 1134)
LaterRoundSessions ==
  { [gameState |-> sessionGameState(g[1], g[2], g[3], g[3], 2, emptyBases),
     balls |-> 0, strikes |-> 0] :
      g \in {<<"koshien", 2, 4>>, <<"koshien", 5, 7>>, <<"npb", 5, 8>>, <<"mlb", 5, 9>>} }

\* The final of koshien (cpuScore 3 + 4), level at a full count with two outs and
\* the bases loaded
FinalFullCountSessions ==
  { [gameState |-> sessionGameState("koshien", 5, 7, 7, 2, <<TRUE, TRUE, TRUE>>),
     balls |-> 3, strikes |-> 2] }

\* Round 6 of mlb, level with two outs, the bases empty and a fresh count: two
\* delayed callbacks armed in round 4 have each added one to tournamentRound and
\* the second has set cpuScore to 5 + 5 (l. 1132-1137)
SixthRoundSessions ==
  { [gameState |-> sessionGameState("mlb", 6, 10, 10, 2, emptyBases),
     balls |-> 0, strikes |-> 0] }

Sessions ==
  FullCountSessions \cup TwoOutSessions \cup OtherCountSessions \cup LeadSessions
    \cup HarderFirstRoundSessions \cup LaterRoundSessions \cup FinalFullCountSessions
    \cup SixthRoundSessions

\* the cpuScore round 1 of a tier starts with: koshien from the start screen
\* (l. 87), npb and mlb from their start buttons (l. 337) or from the tier advance
\* (l. 1064, 1094)
firstRoundCpuScores(type) ==
  IF type = "koshien" THEN {3} ELSE IF type = "npb" THEN {4, 6} ELSE {5}

\* the start screen after construction
InitConstructed ==
  /\ gameState = initialGameState
  /\ balls = 0
  /\ strikes = 0
  /\ gameStarted = FALSE
  /\ lastJudgedPitchRef = 0
  /\ lastProcessedBallRef = 0
  /\ pitchTimer = null

\* a game in progress, rendered, between two plate appearances: the auto-pitch
\* timer is armed, the refs hold the ids of an earlier pitch and an earlier ball
InitInProgress ==
  /\ \E c \in Sessions :
       /\ gameState = c.gameState
       /\ balls = c.balls
       /\ strikes = c.strikes
  /\ gameStarted = TRUE
  /\ lastJudgedPitchRef = 1
  /\ lastProcessedBallRef = 10
  /\ pitchTimer = <<[tournamentType |-> gameState.tournamentType,
                     difficulty |-> gameState.tournamentRound]>>

Init ==
  /\ InitConstructed \/ InitInProgress
  /\ pitch = null
  /\ ball = null
  /\ advanceTimers = <<>>
  /\ rendered = snapshot([pitch |-> null, ball |-> null, gameState |-> gameState],
                         gameStarted)
  /\ queuedTick = null
  /\ unrendered = 0
  /\ pitchesThrown = 0
  /\ event = [step |-> "Init", log |-> <<>>]
  /\ judgements = <<>>
  /\ resolutions = <<>>
  /\ contact = noContact
  /\ firstRoundCpuScore \in IF gameState.tournamentRound = 1
                              THEN {gameState.cpuScore}
                              ELSE firstRoundCpuScores(gameState.tournamentType)
  /\ staleTimers = [advance |-> 0, pitch |-> FALSE]

\* Date.now() of the auto-pitch timer callback.  Ids are only compared for equality
\* with ids of their kind, and every reading differs from the readings before it:
\* the pitches are numbered in the order of their creation (1 is a pitch before
\* the initial state)
pitchId == pitchesThrown + 2

\* Date.now() of handleSwing: the balls carry the number of the pitch they were hit
\* from, in tens, and then count up
ballId ==
  IF rendered.pitch = null THEN 0
  ELSE IF ball # null /\ ball[1].id \div 10 = rendered.pitch[1].id THEN ball[1].id + 1
  ELSE 10 * rendered.pitch[1].id

\* the timers that a reset leaves pending: the first advance of the delayed
\* callbacks in timers, and the auto-pitch timer if pitch
stale(timers, timer) == [advance |-> Len(timers), pitch |-> timer # null]

\* a timer callback or a button handler runs once React has rendered the updates
\* of the handler before it
MayRun == unrendered = 0 /\ queuedTick = null

\* React renders: queued updaters run, the closures and the effects are renewed
Render ==
  /\ unrendered > 0
  /\ LET s == IF queuedTick = null THEN store
              ELSE LET q == queuedTick[1]
                       r == pitchUpdaterTimes(store, <<q.base>>, TicksPerStep, q.extra)
                   IN  IF q.overridden THEN [r EXCEPT !.pitch = pitch] ELSE r
         snap == snapshot(s, gameStarted)
     IN  /\ Commit(s, "Render")
         /\ rendered' = snap
         /\ pitchTimer' = autoPitchEffect(rendered, snap, pitchTimer)
         /\ staleTimers' = [staleTimers EXCEPT !.pitch =
                                @ /\ autoPitchDeps(rendered) = autoPitchDeps(snap)]
  /\ queuedTick' = null
  /\ unrendered' = 0
  /\ UNCHANGED <<gameStarted, pitchesThrown>>

\* the "play ball" button of the start screen
StartGame ==
  /\ MayRun
  /\ ~rendered.gameStarted
  /\ gameStarted' = TRUE
  /\ event' = [step |-> "StartGame", log |-> <<>>]
  /\ unrendered' = unrendered + 1
  /\ UNCHANGED <<gameState, pitch, ball, balls, strikes, lastJudgedPitchRef,
                 lastProcessedBallRef, pitchTimer, advanceTimers, rendered, queuedTick,
                 pitchesThrown, judgements, resolutions, contact,
                 firstRoundCpuScore, staleTimers>>

\* startGameWithTournament('npb' | 'mlb'), the tournament buttons of the start screen
startGameWithTournament ==
  /\ MayRun
  /\ ~rendered.gameStarted
  /\ \E tournamentType \in {"npb", "mlb"} :
       /\ gameState' = freshGameState(tournamentType, baseScore(tournamentType))
       /\ firstRoundCpuScore' = baseScore(tournamentType)
  /\ gameStarted' = TRUE
  /\ event' = [step |-> "startGameWithTournament", log |-> <<>>]
  /\ unrendered' = unrendered + 1
  /\ UNCHANGED <<pitch, ball, balls, strikes, lastJudgedPitchRef,
                 lastProcessedBallRef, pitchTimer, advanceTimers, rendered, queuedTick,
                 pitchesThrown, judgements, resolutions, contact, staleTimers>>

\* the callback of the auto-pitch timer, its Math.random() of the type selection
\* drawn from draws
createPitch(draws) ==
  /\ MayRun
  /\ pitchTimer # null
  /\ \E draw \in draws, off \in TargetOffsets, r \in RandCentered :
       LET tournamentType == pitchTimer[1].tournamentType
           difficulty == pitchTimer[1].difficulty
       IN  pitch' = <<newPitch(selectedType(tournamentType, difficulty, draw),
                               tournamentType, difficulty, off, r, pitchId)>>
  /\ judgements' = (pitchId :> 0)
  /\ pitchTimer' = null
  /\ staleTimers' = [staleTimers EXCEPT !.pitch = FALSE]
  /\ pitchesThrown' = pitchesThrown + 1
  /\ event' = [step |-> "PitchTimerFire", log |-> <<>>]
  /\ unrendered' = unrendered + 1
  /\ UNCHANGED <<gameState, ball, balls, strikes, gameStarted, lastJudgedPitchRef,
                 lastProcessedBallRef, advanceTimers, rendered, queuedTick,
                 resolutions, contact,
                 firstRoundCpuScore>>

\* the auto-pitch timer fires
PitchTimerFire ==
  /\ pitchesThrown < MaxPitches
  /\ createPitch(TypeDraws)

\* the swing input while the game-over screen is not rendered: handleSwing.  A
\* swing that handleSwing ignores changes nothing.
Swing ==
  /\ unrendered <= MaxStaleSwings
  /\ ~rendered.isGameOver
  /\ \E variation \in AngleVariations, speed \in BallSpeeds :
       LET s == handleSwing(store, rendered.pitch, rendered.ball, variation, speed, ballId)
           hit == s.log = <<"swingHit">>
           ignored == s.log = <<"swingIgnored">>
       IN  IF ignored
             THEN UNCHANGED vars
             ELSE /\ Commit([s EXCEPT !.resolutions =
                                        IF hit THEN (ballId :> 0)
                                               ELSE s.resolutions],
                            "Swing")
                  /\ unrendered' = unrendered + 1
                  /\ queuedTick' = IF queuedTick # null
                                     THEN <<[queuedTick[1] EXCEPT !.overridden = TRUE]>>
                                     ELSE queuedTick
                  /\ UNCHANGED <<gameStarted, pitchTimer, rendered, pitchesThrown,
                                 staleTimers>>

\* the setInterval callback runs n times; React runs its updaters at once
intervalCallback(n) ==
  /\ \E extra \in BreakExtras : Commit(gameLoopTimes(store, n, extra), "Tick")
  /\ unrendered' = unrendered + 1
  /\ UNCHANGED <<gameStarted, pitchTimer, rendered, queuedTick, pitchesThrown,
                 staleTimers>>

\* the setInterval callback runs TicksPerStep times; React runs its updaters at once
Tick ==
  /\ MayRun
  /\ pitch # null \/ ball # null
  /\ intervalCallback(TicksPerStep)

\* the setInterval callback runs TicksPerStep times; React queues its setPitch
\* updaters and runs them in the next render
TickQueued ==
  /\ MayRun
  /\ pitch # null
  /\ ball = null
  /\ \E extra \in BreakExtras :
       queuedTick' = <<[base |-> pitch[1], extra |-> extra, overridden |-> FALSE]>>
  /\ event' = [step |-> "TickQueued", log |-> <<>>]
  /\ unrendered' = unrendered + 1
  /\ UNCHANGED <<gameState, pitch, ball, balls, strikes, gameStarted, lastJudgedPitchRef,
                 lastProcessedBallRef, pitchTimer, advanceTimers, rendered,
                 pitchesThrown, judgements, resolutions, contact,
                 firstRoundCpuScore, staleTimers>>

\* the oldest delayed callback of handleTournamentWin fires
AdvanceTimerFire ==
  /\ MayRun
  /\ advanceTimers # <<>>
  /\ pitch' = null
  /\ ball' = null
  /\ contact' = noContact
  /\ balls' = 0
  /\ strikes' = 0
  /\ gameState' = advanceGameState(gameState, Head(advanceTimers).kind)
  /\ firstRoundCpuScore' = IF gameState'.tournamentRound = 1 THEN gameState'.cpuScore
                                                              ELSE firstRoundCpuScore
  /\ advanceTimers' = Tail(advanceTimers)
  /\ staleTimers' = stale(advanceTimers', pitchTimer)
  /\ event' = [step |-> "AdvanceTimerFire", log |-> <<>>]
  /\ unrendered' = unrendered + 1
  /\ UNCHANGED <<gameStarted, lastJudgedPitchRef, lastProcessedBallRef, pitchTimer,
                 rendered, queuedTick, pitchesThrown, judgements, resolutions>>

\* restartGame: the button of the game-over screen, or the swing input while the
\* game-over screen is rendered
restartGame ==
  /\ MayRun
  /\ rendered.isGameOver
  /\ gameState' = initialGameState
  /\ firstRoundCpuScore' = initialGameState.cpuScore
  /\ pitch' = null
  /\ ball' = null
  /\ contact' = noContact
  /\ balls' = 0
  /\ strikes' = 0
  /\ gameStarted' = FALSE
  /\ staleTimers' = stale(advanceTimers, pitchTimer)
  /\ event' = [step |-> "restartGame", log |-> <<>>]
  /\ unrendered' = unrendered + 1
  /\ UNCHANGED <<lastJudgedPitchRef, lastProcessedBallRef, pitchTimer, advanceTimers,
                 rendered, queuedTick, pitchesThrown, judgements, resolutions>>

\* continueGame that starts the tier over: the round is set to 1
continueGameFromRoundOne ==
  /\ MayRun
  /\ rendered.gameStarted /\ rendered.isGameOver /\ ~rendered.isWinner
  /\ \E newCpuScore \in 3..5 :
       gameState' = [gameState EXCEPT !.inning = 9, !.outs = 0, !.playerScore = 0,
                                      !.cpuScore = newCpuScore, !.bases = emptyBases,
                                      !.isGameOver = FALSE, !.tournamentRound = 1,
                                      !.playerInningScores = zeroInnings]
  /\ firstRoundCpuScore' = IF gameState'.tournamentRound = 1 THEN gameState'.cpuScore
                                                              ELSE firstRoundCpuScore
  /\ pitch' = null
  /\ ball' = null
  /\ contact' = noContact
  /\ balls' = 0
  /\ strikes' = 0
  /\ staleTimers' = stale(advanceTimers, pitchTimer)
  /\ event' = [step |-> "continueGame", log |-> <<>>]
  /\ unrendered' = unrendered + 1
  /\ UNCHANGED <<gameStarted, lastJudgedPitchRef, lastProcessedBallRef, pitchTimer,
                 advanceTimers, rendered, queuedTick, pitchesThrown, judgements,
                 resolutions>>

\* continueGame: the button shown on the game-over screen of a lost game
continueGame ==
  /\ MayRun
  /\ rendered.gameStarted /\ rendered.isGameOver /\ ~rendered.isWinner
  /\ \E newCpuScore \in 3..5 :
       gameState' = [gameState EXCEPT !.inning = 9, !.outs = 0, !.playerScore = 0,
                                      !.cpuScore = newCpuScore, !.bases = emptyBases,
                                      !.isGameOver = FALSE,
                                      !.playerInningScores = zeroInnings]
  /\ firstRoundCpuScore' = IF gameState'.tournamentRound = 1 THEN gameState'.cpuScore
                                                              ELSE firstRoundCpuScore
  /\ pitch' = null
  /\ ball' = null
  /\ contact' = noContact
  /\ balls' = 0
  /\ strikes' = 0
  /\ staleTimers' = stale(advanceTimers, pitchTimer)
  /\ event' = [step |-> "continueGame", log |-> <<>>]
  /\ unrendered' = unrendered + 1
  /\ UNCHANGED <<gameStarted, lastJudgedPitchRef, lastProcessedBallRef, pitchTimer,
                 advanceTimers, rendered, queuedTick, pitchesThrown, judgements,
                 resolutions>>

\* backToTop: the button of the game-over screen
backToTop ==
  /\ MayRun
  /\ rendered.gameStarted /\ rendered.isGameOver
  /\ gameState' = initialGameState
  /\ firstRoundCpuScore' = initialGameState.cpuScore
  /\ pitch' = null
  /\ ball' = null
  /\ contact' = noContact
  /\ balls' = 0
  /\ strikes' = 0
  /\ gameStarted' = FALSE
  /\ staleTimers' = stale(advanceTimers, pitchTimer)
  /\ event' = [step |-> "backToTop", log |-> <<>>]
  /\ unrendered' = unrendered + 1
  /\ UNCHANGED <<lastJudgedPitchRef, lastProcessedBallRef, pitchTimer, advanceTimers,
                 rendered, queuedTick, pitchesThrown, judgements, resolutions>>

Next ==
  \/ Render
  \/ StartGame
  \/ startGameWithTournament
  \/ PitchTimerFire
  \/ Swing
  \/ Tick
  \/ TickQueued
  \/ AdvanceTimerFire
  \/ restartGame
  \/ continueGame
  \/ backToTop

Spec == Init /\ [][Next]_vars

-----------------------------------------------------------------------------
(* processHitResult on its own: every result applied to every base         *)
(* configuration                                                           *)

\* the scores the player has in the half-innings of HitInit; 8 is a lead, taken by
\* a bases-loaded walk, which is not entered on the scoreboard (l. 1725-1748)
HitScores == {0, 3, 6, 7, 8}

\* a half-inning of the koshien final (cpuScore 3 + 4) with no pitch and no ball
\* in flight: every base configuration, 0 to 2 outs, the player behind, level or
\* ahead
HitInit ==
  /\ \E playerScore \in HitScores, outs \in 0..2, bases \in Bases :
       gameState = [sessionGameState("koshien", 5, 7, playerScore, outs, bases)
                      EXCEPT !.playerInningScores =
                               [zeroInnings EXCEPT ![9] = IF playerScore > 7 THEN 7
                                                                              ELSE playerScore]]
  /\ balls = 2
  /\ strikes = 1
  /\ gameStarted = TRUE
  /\ lastJudgedPitchRef = 1
  /\ lastProcessedBallRef = 10
  /\ pitchTimer = null
  /\ pitch = null
  /\ ball = null
  /\ advanceTimers = <<>>
  /\ rendered = snapshot([pitch |-> null, ball |-> null, gameState |-> gameState],
                         gameStarted)
  /\ queuedTick = null
  /\ unrendered = 0
  /\ pitchesThrown = 0
  /\ event = [step |-> "Init", log |-> <<>>]
  /\ judgements = <<>>
  /\ resolutions = <<>>
  /\ contact = noContact
  /\ firstRoundCpuScore = 3
  /\ staleTimers = [advance |-> 0, pitch |-> FALSE]

\* processHitResult(result) is called while the half-inning is on
HitNext ==
  /\ ~gameState.isGameOver
  /\ ~gameState.showVictory
  /\ \E result \in {"OUT", "H", "2B", "3B", "HR"} :
       Commit(processHitResult(store, result), "processHitResult")
  /\ UNCHANGED <<gameStarted, pitchTimer, rendered, queuedTick, unrendered,
                 pitchesThrown, staleTimers>>

HitSpec == HitInit /\ [][HitNext]_vars

-----------------------------------------------------------------------------
(* checkHitResult on its own: positions all around home plate              *)

\* directions from home plate, in centi-pi (0 is the right, 50 straight ahead)
ZoneAngles == 0..199
\* distances from home plate in pixels: short of the fence, the threshold, beyond
ZoneDistances == {250, 400, 1000}

\* the position at distance d (pixels) from home plate (500, 530) in direction a
positionAt(a, d) ==
  [x |-> Px(500) + TruncDiv(CosC(a) * d, 1000), y |-> Px(530) - TruncDiv(SinC(a) * d, 1000)]

\* a batted ball at the position that is handed to checkHitResult
ZoneInit ==
  /\ gameState = sessionGameState("koshien", 1, 3, 0, 0, emptyBases)
  /\ \E a \in ZoneAngles, d \in ZoneDistances :
       ball = <<[ x |-> positionAt(a, d).x, y |-> positionAt(a, d).y, vx |-> 0, vy |-> 0,
                 active |-> TRUE, hasScored |-> FALSE, startX |-> Px(500),
                 startY |-> Px(510), id |-> 20 ]>>
  /\ balls = 0
  /\ strikes = 0
  /\ gameStarted = TRUE
  /\ lastJudgedPitchRef = 2
  /\ lastProcessedBallRef = 10
  /\ pitchTimer = null
  /\ pitch = null
  /\ advanceTimers = <<>>
  /\ rendered = snapshot([pitch |-> null, ball |-> ball, gameState |-> gameState],
                         gameStarted)
  /\ queuedTick = null
  /\ unrendered = 0
  /\ pitchesThrown = 1
  /\ event = [step |-> "Init", log |-> <<>>]
  /\ judgements = <<>>
  /\ resolutions = <<>>
  /\ contact = noContact
  /\ firstRoundCpuScore = 3
  /\ staleTimers = [advance |-> 0, pitch |-> FALSE]

\* checkHitResult(x, y) is called on the position of the ball; the ball is marked
\* as scored (l. 1206)
ZoneNext ==
  /\ ball # null
  /\ ~ball[1].hasScored
  /\ ball' = <<[ball[1] EXCEPT !.hasScored = TRUE]>>
  /\ lastProcessedBallRef' = ball[1].id
  /\ event' = [step |-> "checkHitResult", log |-> <<checkHitResult(ball[1].x, ball[1].y)>>]
  /\ UNCHANGED <<gameState, pitch, balls, strikes, gameStarted, lastJudgedPitchRef,
                 pitchTimer, advanceTimers, rendered, queuedTick, unrendered,
                 pitchesThrown, judgements, resolutions, contact, firstRoundCpuScore,
                 staleTimers>>

ZoneSpec == ZoneInit /\ [][ZoneNext]_vars

-----------------------------------------------------------------------------
(* The flight of a pitch and of the ball hit from it, one execution of the *)
(* interval callback per step, for every pitch type                        *)

\* pitches created in one flight
FlightPitches == 1
\* Math.random() of the pitch type selection, in hundredths: every index of every
\* pitchTypes list is drawn
FlightDraws == {5 * i : i \in 0..19}
\* the progress of the pitch, in ticks, at which the batter may swing
FlightSwingTimes == {10, 20, 40}

\* the tier, the round and the cpuScore of the games a flight is watched in
FlightSessions ==
  {<<"koshien", 1, 3>>, <<"koshien", 2, 4>>, <<"koshien", 3, 5>>, <<"koshien", 4, 6>>,
   <<"npb", 1, 4>>, <<"mlb", 1, 5>>, <<"mlb", 5, 9>>}

\* a game in progress, rendered, at the start of a half-inning: the auto-pitch
\* timer is armed
FlightInit ==
  /\ \E g \in FlightSessions :
       gameState = sessionGameState(g[1], g[2], g[3], 0, 0, emptyBases)
  /\ balls = 0
  /\ strikes = 0
  /\ gameStarted = TRUE
  /\ lastJudgedPitchRef = 1
  /\ lastProcessedBallRef = 10
  /\ pitchTimer = <<[tournamentType |-> gameState.tournamentType,
                     difficulty |-> gameState.tournamentRound]>>
  /\ pitch = null
  /\ ball = null
  /\ advanceTimers = <<>>
  /\ rendered = snapshot([pitch |-> null, ball |-> null, gameState |-> gameState],
                         gameStarted)
  /\ queuedTick = null
  /\ unrendered = 0
  /\ pitchesThrown = 0
  /\ event = [step |-> "Init", log |-> <<>>]
  /\ judgements = <<>>
  /\ resolutions = <<>>
  /\ contact = noContact
  /\ firstRoundCpuScore = baseScore(gameState.tournamentType)
  /\ staleTimers = [advance |-> 0, pitch |-> FALSE]

\* the auto-pitch timer fires
FlightPitch ==
  /\ pitchesThrown < FlightPitches
  /\ createPitch(FlightDraws)

\* the setInterval callback runs once
FlightTick ==
  /\ MayRun
  /\ pitch # null \/ ball # null
  /\ intervalCallback(1)

\* the swing input, handled by the handleSwing of the current render
FlightSwing ==
  /\ MayRun
  /\ pitch # null
  /\ pitch[1].progress \in FlightSwingTimes
  /\ Swing

FlightNext ==
  \/ Render
  \/ FlightPitch
  \/ FlightTick
  \/ FlightSwing

FlightSpec == FlightInit /\ [][FlightNext]_vars

\* the interval keeps running (setInterval of 16 ms, never cleared while the
\* component is mounted) and React renders every update
FlightFair == FlightSpec /\ WF_vars(FlightTick) /\ WF_vars(Render)

-----------------------------------------------------------------------------
(* Properties *)

\* what is in the log e of a step
Logged(e, what) == \E i \in 1..Len(e.log) : e.log[i] = what

HitResults == {"OUT", "H", "2B", "3B", "HR"}

\* the step resolves the ball in flight: a foul or a classified result is applied
Resolves(e) == Logged(e, "foul") \/ \E r \in HitResults : Logged(e, r)

\* the number of resolutions applied by a step with log e
Applied(e) == Cardinality({i \in 1..Len(e.log) : e.log[i] \in HitResults \cup {"foul"}})

\* C1: in every reachable state at most one of the pitch and the batted ball is in
\* flight: no pitch is created while a batted ball is active, and a batted ball
\* exists only while no pitch exists.
C1_OneInFlight == pitch = null \/ ball = null

\* C2: whatever the interleaving of game-loop ticks and swing inputs (a swing reads
\* the pitch of the last render), no pitch id produces more than one judgement
\* among looking strike, looking ball, swing hit and swing miss.
C2_OneJudgementPerPitch == \A id \in DOMAIN judgements : judgements[id] <= 1

Judged(s) ==
  <<s.balls, s.strikes, s.gameState, s.lastJudgedPitchRef, s.advanceTimers, s.judgements,
    s.log>>

\* a queued game-loop updater holds a pitch whose id is the last-judged id
LateTick == queuedTick # null /\ queuedTick[1].base.id = lastJudgedPitchRef

\* the store after React has run the queued updaters
AfterLateTick ==
  pitchUpdaterTimes(store, <<queuedTick[1].base>>, TicksPerStep, queuedTick[1].extra)

\* C4: running the game loop's updaters on a pitch whose id equals the last-judged
\* id (a late tick: the pitch was judged after the updaters were queued) changes
\* neither the count, the game state, the refs nor the timers, and judges nothing.
C4_LateTickChangesNothing == LateTick => Judged(AfterLateTick) = Judged(store)

\* a late tick carries an already judged pitch across the judgement plane
C4_LateTickCrosses ==
  /\ LateTick
  /\ Judged(pitchUpdaterTimes([store EXCEPT !.lastJudgedPitchRef = 0],
                              <<queuedTick[1].base>>, TicksPerStep, queuedTick[1].extra))
       # Judged([store EXCEPT !.lastJudgedPitchRef = 0])

\* C5: no reachable state has playerScore > cpuScore while neither showVictory nor
\* isGameOver is set: every run-scoring event that takes the player ahead ends the
\* half-inning as a walk-off win in the same transition.
C5_WalkOff ==
  gameState.playerScore > gameState.cpuScore
    => gameState.showVictory \/ gameState.isGameOver

\* C6: balls is in 0..3 and strikes is in 0..2 in every reachable state.
C6_CountInRange == balls \in 0..(maxBalls - 1) /\ strikes \in 0..(maxStrikes - 1)

\* the fourth ball and the third strike have reset the count
C6_CountReset ==
  /\ balls = 0 /\ strikes = 0
  /\ \/ event.log = <<"lookingBall", "walk">>
     \/ event.log = <<"lookingStrike", "strikeout">>

\* the step rules the ball in flight foul; contact holds the state before the
\* swing that produced this ball, and no other pitch has been judged since
Foul ==
  /\ Logged(event', "foul")
  /\ ball # null /\ contact.id = ball[1].id
  /\ lastJudgedPitchRef' = contact.pitchId

\* C7: when a ball is ruled foul in a plate appearance whose count had two strikes
\* before the swing, strikes is two after the foul.
C7_FoulAtTwoStrikes ==
  [][ (Foul /\ contact.strikes = 2) => strikes' = 2 ]_vars

\* C8: after a foul, balls equals the balls before the swing that produced it, and
\* outs, bases and both scores are those before the swing.
C8_FoulKeepsCount ==
  [][ Foul =>
        /\ balls' = contact.balls
        /\ gameState'.outs = contact.gameState.outs
        /\ gameState'.bases = contact.gameState.bases
        /\ gameState'.playerScore = contact.gameState.playerScore
        /\ gameState'.cpuScore = contact.gameState.cpuScore ]_vars

\* C9: a walk occupies first base, moves a runner forward only if every base behind
\* that runner is occupied, scores exactly one run iff the bases were loaded, leaves
\* outs and the opponent's score unchanged and resets the count; so (1,1,1) stays
\* (1,1,1) with one run, (0,0,0) becomes (1,0,0) and (1,0,0) becomes (1,1,0).
C9_WalkCascade ==
  [][ Logged(event', "walk") =>
        LET b == gameState.bases
            loaded == b[1] /\ b[2] /\ b[3]
        IN  /\ balls = maxBalls - 1
            /\ gameState'.bases = <<TRUE, b[2] \/ b[1], b[3] \/ (b[1] /\ b[2])>>
            /\ gameState'.playerScore = gameState.playerScore + (IF loaded THEN 1 ELSE 0)
            /\ gameState'.cpuScore = gameState.cpuScore
            /\ gameState'.outs = gameState.outs
            /\ balls' = 0 /\ strikes' = 0
            /\ b = <<TRUE, TRUE, TRUE>> => gameState'.bases = <<TRUE, TRUE, TRUE>>
            /\ b = <<FALSE, FALSE, FALSE>> => gameState'.bases = <<TRUE, FALSE, FALSE>>
            /\ b = <<TRUE, FALSE, FALSE>> => gameState'.bases = <<TRUE, TRUE, FALSE>> ]_vars

\* a walk with the bases loaded has scored the run that takes the player ahead
C9_WalkLoaded ==
  /\ event.log = <<"lookingBall", "walk">>
  /\ gameState.bases = <<TRUE, TRUE, TRUE>>
  /\ gameState.playerScore = gameState.cpuScore + 1
  /\ balls = 0 /\ strikes = 0

\* C10: a third strike (swinging or looking) with fewer than two outs adds exactly
\* one out, makes the count (0,0) and leaves bases and both scores unchanged; a
\* swinging miss below two strikes adds one strike and nothing else, so that three
\* swinging misses in a row from a fresh count make exactly one out.
C10_Strikeout ==
  [][ /\ (Logged(event', "strikeout") /\ gameState.outs < 2) =>
            /\ strikes = maxStrikes - 1
            /\ gameState' = [gameState EXCEPT !.outs = gameState.outs + 1]
            /\ balls' = 0 /\ strikes' = 0
      /\ event'.log = <<"swingMiss">> =>
            /\ strikes < maxStrikes - 1
            /\ strikes' = strikes + 1
            /\ balls' = balls
            /\ gameState' = gameState ]_vars

\* a swinging miss at two strikes with no out has made the first out
C10_SwingingStrikeout ==
  /\ event.step = "Swing" /\ event.log = <<"swingMiss", "strikeout">>
  /\ gameState.outs = 1
  /\ balls = 0 /\ strikes = 0


\* a step with log e ends a plate appearance: a walk, a strikeout, or a fair batted
\* ball resolved to a result
EndsPlateAppearance(e) ==
  Logged(e, "walk") \/ Logged(e, "strikeout") \/ \E r \in HitResults : Logged(e, r)

\* C11: every step that ends a plate appearance (a walk, a strikeout, a fair batted
\* ball resolved to any result, OUT included) leaves balls = 0 and strikes = 0
C11_EndResetsCount ==
  [][EndsPlateAppearance(event') => balls' = 0 /\ strikes' = 0]_vars

\* a tick resolved a fair batted ball to OUT and the count is (0, 0)
C11_OutResetsCount ==
  /\ event.step = "Tick"
  /\ Logged(event, "OUT")
  /\ balls = 0
  /\ strikes = 0


\* the number of outs recorded by a step with log e
OutsLogged(e) == Cardinality({i \in 1..Len(e.log) : e.log[i] \in {"strikeout", "OUT"}})

\* the step records the third out of the half-inning
ThirdOut == OutsLogged(event') > 0 /\ gameState.outs + OutsLogged(event') >= 3

\* C12: at the third out, by a strikeout or by a fielded out, the game is lost
\* (isGameOver, not isWinner) iff playerScore <= cpuScore, a tie counting as a
\* loss; with playerScore > cpuScore the tournament-win transition is taken
C12_ThirdOutDecides ==
  [][ThirdOut =>
       LET g == gameState'
           lost == g.isGameOver /\ ~g.isWinner
       IN  IF g.playerScore <= g.cpuScore
             THEN lost /\ ~Logged(event', "win")
             ELSE ~lost /\ Logged(event', "win") /\ g.showVictory]_vars

\* a strikeout was the third out with the player ahead, and the win was taken
C12_StrikeoutWhileAhead ==
  /\ Logged(event, "strikeout")
  /\ Logged(event, "win")
  /\ gameState.outs = 2
  /\ gameState.playerScore > gameState.cpuScore
  /\ gameState.showVictory
  /\ ~gameState.isGameOver


\* the steps that reset the half-inning: a delayed round or tier advance, restart,
\* continue, back to top
Resets(e) == e.step \in {"AdvanceTimerFire", "restartGame", "continueGame", "backToTop"}

\* C13: in every reachable state outs is in 0..2: the third out ends the
\* half-inning (game over or win) and is not stored, and every round reset, restart
\* and continue leaves outs = 0
C13_OutsInRange ==
  /\ [](gameState.outs \in 0..2)
  /\ [][/\ ThirdOut => /\ gameState'.outs = 2
                       /\ gameState'.isGameOver \/ gameState'.showVictory
        /\ Resets(event') => gameState'.outs = 0]_vars

\* a fielded out was the third out: the game is over and outs is still 2
C13_ThirdOutNotStored ==
  /\ Logged(event, "OUT")
  /\ gameState.isGameOver
  /\ ~gameState.isWinner
  /\ gameState.outs = 2


\* the step is the delayed callback of kind, armed by the win that heads the queue
Fires(kind) ==
  /\ event'.step = "AdvanceTimerFire"
  /\ advanceTimers # <<>>
  /\ Head(advanceTimers).kind = kind

\* the half-inning starts afresh: no out, count (0, 0), bases empty, no run, no
\* victory screen, nothing in flight
FreshHalfInning ==
  /\ gameState'.outs = 0
  /\ balls' = 0
  /\ strikes' = 0
  /\ gameState'.bases = emptyBases
  /\ gameState'.playerScore = 0
  /\ ~gameState'.showVictory
  /\ pitch' = null
  /\ ball' = null

\* C14: when the delay after a win in round r < 5 of a tier has passed, the game is
\* in the same tier at round r + 1 with a fresh half-inning and cpuScore = base + r,
\* base being 3 for koshien, 4 for npb and 5 for mlb
C14_NextRound ==
  [][Fires("next") =>
       LET won == Head(advanceTimers)
       IN  /\ won.tournamentRound < 5
           /\ gameState'.tournamentType = won.tournamentType
           /\ gameState'.tournamentRound = won.tournamentRound + 1
           /\ gameState'.cpuScore = baseScore(won.tournamentType) + won.tournamentRound
           /\ FreshHalfInning]_vars


\* C15: on every round advance within a tier the cpuScore of round r + 1 is
\* strictly greater than the cpuScore of the round r that was just won, however
\* round r was reached (fresh start, tier start, tier advance, continue)
C15_ScaledUpward ==
  [][Fires("next") => gameState'.cpuScore > Head(advanceTimers).cpuScore]_vars


\* the tier after a tier
nextTier(type) == IF type = "koshien" THEN "npb" ELSE "mlb"

\* the delayed callback of a tier advance fires in the game whose win armed it
TierAdvances ==
  /\ Fires("npb") \/ Fires("mlb")
  /\ gameState.tournamentType = Head(advanceTimers).tournamentType
  /\ gameState.tournamentRound = Head(advanceTimers).tournamentRound

\* C16: when the delay after a win in round 5 of koshien or npb has passed, the
\* game is in the next tier (npb, mlb) at round 1 with a fresh half-inning, and
\* its cpuScore is strictly larger than the cpuScore round 1 of the tier just
\* completed was played with
C16_HarderTier ==
  [][TierAdvances /\ gameState.tournamentRound = 5 =>
       /\ gameState'.tournamentType = nextTier(gameState.tournamentType)
       /\ gameState'.tournamentRound = 1
       /\ FreshHalfInning
       /\ gameState'.cpuScore > firstRoundCpuScore]_vars


\* the tournament is won: the final victory of the mlb tier
FinalVictory ==
  /\ gameState.tournamentType = "mlb"
  /\ gameState.isGameOver
  /\ gameState.isWinner

tierIndex(type) == IF type = "koshien" THEN 0 ELSE IF type = "npb" THEN 1 ELSE 2

\* (tier, round) of gs is lexicographically at most (tier, round) of hs
TierRoundLE(gs, hs) ==
  \/ tierIndex(gs.tournamentType) < tierIndex(hs.tournamentType)
  \/ /\ gs.tournamentType = hs.tournamentType
     /\ gs.tournamentRound <= hs.tournamentRound

\* C18: within a playthrough, that is on every step of a started game other than
\* restartGame and backToTop, the pair (tier, round), ordered lexicographically
\* with koshien < npb < mlb, does not decrease; continueGame and the delayed
\* advances are such steps
C18_TierRoundMonotone ==
  [][gameStarted /\ event'.step \notin {"restartGame", "backToTop"}
       => TierRoundLE(gameState, gameState')]_vars

\* C19: in every reachable state tournamentRound is in 1..5, whatever the wins,
\* delayed advances, continues and restarts before it
C19_RoundInRange == gameState.tournamentRound \in 1..5


\* no pitch is to be created: the victory screen is up, the game is over, or the
\* game has not been started
Stopped == gameState.showVictory \/ gameState.isGameOver \/ ~gameStarted

StaleTimerFires ==
  \/ event'.step = "AdvanceTimerFire" /\ staleTimers.advance > 0
  \/ event'.step = "PitchTimerFire" /\ staleTimers.pitch

\* C21: restart, back to top, continue and the delayed tournament advance leave no
\* pitch and no ball in flight and the count (0, 0), and a timer armed before such
\* a reset (auto-pitch or delayed advance) that fires after it changes nothing of
\* the reset session: game state, pitch, ball and count stay as they are
C21_ResetDiscardsTimers ==
  [][/\ Resets(event') =>
          pitch' = null /\ ball' = null /\ balls' = 0 /\ strikes' = 0
     /\ StaleTimerFires =>
          UNCHANGED <<gameState, pitch, ball, balls, strikes>>]_vars


\* the step is a swing that handleSwing acts on, taken at a pitch in flight with no
\* batted ball in flight
SwingAtPitch ==
  /\ event'.step = "Swing"
  /\ pitch # null /\ pitch[1].active
  /\ ball = null

\* C22: a swing at an active pitch with no ball in flight has exactly one outcome.
\* With the pitch, as handleSwing reads it, in the hit zone (410 <= y <= 530 and
\* |x - 500| < 15) one batted ball is created at that position and the pitch is
\* cleared; otherwise the pitch is cleared, no ball is created and strikes grows by
\* one, or at the third strike the strikeout is recorded and the count is reset
C22_SwingOneOutcome ==
  [][SwingAtPitch =>
       LET p == rendered.pitch[1]
           inZone == /\ p.y >= Px(410) /\ p.y <= Px(530)
                     /\ Abs(p.x - Px(500)) < Px(15)
       IN  /\ rendered.pitch # null /\ p.id = pitch[1].id
           /\ pitch' = null
           /\ IF inZone
                THEN /\ event'.log = <<"swingHit">>
                     /\ ball' # null /\ ball'[1].active
                     /\ ball'[1].x = p.x /\ ball'[1].y = p.y
                     /\ gameState' = gameState
                ELSE /\ ball' = null
                     /\ IF strikes + 1 < 3
                          THEN /\ event'.log = <<"swingMiss">>
                               /\ strikes' = strikes + 1
                               /\ balls' = balls
                               /\ gameState' = gameState
                          ELSE /\ Logged(event', "swingMiss")
                               /\ Logged(event', "strikeout")
                               /\ strikes' = 0 /\ balls' = 0
                               /\ IF gameState.outs < 2
                                    THEN gameState'.outs = gameState.outs + 1
                                    ELSE gameState'.isGameOver
                                           \/ gameState'.showVictory]_vars

\* a swing met the pitch in the hit zone: the ball is in flight, the pitch is gone
C22_SwingHit ==
  /\ event.step = "Swing"
  /\ event.log = <<"swingHit">>
  /\ ball # null
  /\ pitch = null
  /\ contact.id = ball[1].id


\* C23: a swing input received while no pitch is active, or while a batted ball is
\* in flight, changes nothing: pitch, ball, count, game state (outs, bases, scores)
\* and the last-judged id stay as they are
C23_SwingIgnored ==
  [][(event'.step = "Swing" /\ (pitch = null \/ ~pitch[1].active \/ ball # null))
       => UNCHANGED <<pitch, ball, balls, strikes, gameState, lastJudgedPitchRef>>]_vars


RECURSIVE crossing(_, _, _)
\* the first position past the judgement plane (y > 530) that the pitch p takes
\* within n ticks, or its position after n ticks
crossing(p, n, extra) ==
  IF n = 0 THEN p
  ELSE LET q == moved(p, extra)
       IN  IF q.y > Px(530) THEN q ELSE crossing(q, n - 1, extra)

\* the step judges a pitch that was not swung at, and resolves no batted ball
LookingJudgement ==
  /\ Logged(event', "lookingStrike") \/ Logged(event', "lookingBall")
  /\ ~Resolves(event')

\* C24: an unswung pitch that crosses the judgement plane (new y > 530) is called
\* a strike iff its x at that tick is within the plate (485 <= x <= 515) and a
\* ball otherwise; the call adds one to strikes or to balls and to nothing else
\* (at the cap: the strikeout or the walk, and the count (0, 0)), and the pitch is
\* removed in the same tick
C24_LookingJudgement ==
  [][LookingJudgement =>
       /\ pitch # null
       /\ pitch' = null
       /\ \E extra \in BreakExtras :
            LET q == crossing(pitch[1], TicksPerStep, extra)
                overPlate == q.x >= Px(485) /\ q.x <= Px(515)
            IN  /\ q.y > Px(530)
                /\ Logged(event', "lookingStrike") <=> overPlate
                /\ Logged(event', "lookingBall") <=> ~overPlate
                /\ overPlate =>
                     IF strikes + 1 < 3
                       THEN strikes' = strikes + 1 /\ balls' = balls
                       ELSE Logged(event', "strikeout") /\ strikes' = 0 /\ balls' = 0
                /\ ~overPlate =>
                     IF balls + 1 < 4
                       THEN balls' = balls + 1 /\ strikes' = strikes
                       ELSE Logged(event', "walk") /\ strikes' = 0 /\ balls' = 0]_vars

\* a tick called an unswung pitch a ball below the cap: one more ball on the count
C24_BallCalled ==
  /\ event.step = "Tick"
  /\ event.log = <<"lookingBall">>
  /\ pitch = null
  /\ balls \in 1..3


\* 1 for an occupied base
runner(occupied) == IF occupied THEN 1 ELSE 0

\* the step resolves a batted ball to result, and does nothing else to the bases
ResolvedTo(result) ==
  /\ Logged(event', result)
  /\ Applied(event') = 1
  /\ ~Logged(event', "walk")

\* C25: for every base configuration (b1, b2, b3) a resolved hit adds to
\* playerScore exactly: single, 1 iff third was occupied; double, the runners on
\* second and third; triple, all runners; home run, all runners plus 1
C25_RunsScored ==
  [][LET b == gameState.bases
         all == runner(b[1]) + runner(b[2]) + runner(b[3])
         scored == gameState'.playerScore - gameState.playerScore
     IN  /\ ResolvedTo("H") => scored = runner(b[3])
         /\ ResolvedTo("2B") => scored = runner(b[2]) + runner(b[3])
         /\ ResolvedTo("3B") => scored = all
         /\ ResolvedTo("HR") => scored = all + 1]_vars

\* a home run with the bases loaded has scored four runs
C25_GrandSlam ==
  /\ event.step = "processHitResult"
  /\ event.log = <<"HR">>
  /\ gameState.playerScore = 4
  /\ gameState.playerInningScores[9] = 4
  /\ gameState.bases = emptyBases


\* the half-inning goes on after the step: no game over, no victory
PlayGoesOn == ~gameState'.isGameOver /\ ~gameState'.showVictory

\* C26: for every base configuration (b1, b2, b3) the bases after a resolved hit
\* that does not end the game are: single (true, b1, b2); double (false, true, b1),
\* the batter on second and the runners moved two bases; triple (false, false,
\* true); home run (false, false, false)
C26_BasesAfterHit ==
  [][PlayGoesOn =>
       LET b == gameState.bases
       IN  /\ ResolvedTo("H") => gameState'.bases = <<TRUE, b[1], b[2]>>
           /\ ResolvedTo("2B") => gameState'.bases = <<FALSE, TRUE, b[1]>>
           /\ ResolvedTo("3B") => gameState'.bases = <<FALSE, FALSE, TRUE>>
           /\ ResolvedTo("HR") => gameState'.bases = <<FALSE, FALSE, FALSE>>]_vars

\* a double with runners on has put the batter on second and the runner from
\* first on third, and the half-inning goes on
C26_DoubleMovesRunner ==
  /\ event.step = "processHitResult"
  /\ event.log = <<"2B">>
  /\ gameState.bases = <<FALSE, TRUE, TRUE>>
  /\ gameState.playerScore \in {1, 2}
  /\ ~gameState.showVictory
  /\ ~gameState.isGameOver


\* C27: a fielded OUT with fewer than 2 outs adds exactly one out and leaves the
\* bases, playerScore and cpuScore as they were: the runners hold
C27_FieldedOut ==
  [][(ResolvedTo("OUT") /\ ~Logged(event', "strikeout") /\ gameState.outs < 2) =>
       /\ gameState'.outs = gameState.outs + 1
       /\ gameState'.bases = gameState.bases
       /\ gameState'.playerScore = gameState.playerScore
       /\ gameState'.cpuScore = gameState.cpuScore]_vars

\* a fielded out was the second out and the bases are still loaded
C27_RunnersHold ==
  /\ event.step = "processHitResult"
  /\ event.log = <<"OUT">>
  /\ gameState.outs = 2
  /\ gameState.bases = <<TRUE, TRUE, TRUE>>
  /\ ~gameState.isGameOver


\* the bands of the zone table that hold the direction (dy, dx)
bandsOf(dy, dx) ==
  {i \in 1..Len(zones) : AngleGE(dy, dx, zones[i][1]) /\ AngleLE(dy, dx, zones[i][2])}

\* two bands that hold one direction never differ in their result
SameResult(i, j) == zones[i][3] = zones[j][3]

\* two bands that hold one direction are neighbours that share one boundary angle
SharedBoundary(i, j) == j = i + 1 /\ zones[i][2] = zones[j][1]

\* the step classifies a position: checkHitResult returns exactly one result, OUT
\* below distance 400 and outside the arc [0.25 pi, 0.75 pi]; inside, the direction
\* is in at least one band (no gap) and the result is that of the first band that
\* holds it; two bands that hold it give the same result (disjoint) or share
\* their boundary angle
Classified(disjoint) ==
  event'.step = "checkHitResult" =>
       LET dx == ball[1].x - Px(500)
           dy == Px(530) - ball[1].y
           far == dx * dx + dy * dy >= Px(400) * Px(400)
           fair == AngleGE(dy, dx, 25) /\ AngleLE(dy, dx, 75)
           bands == bandsOf(dy, dx)
       IN  /\ Len(event'.log) = 1
           /\ event'.log[1] \in HitResults
           /\ ~far => event'.log[1] = "OUT"
           /\ ~fair => event'.log[1] = "OUT"
           /\ (far /\ fair) =>
                /\ bands # {}
                /\ \E i \in bands : /\ \A j \in bands : i <= j
                                     /\ event'.log[1] = zones[i][3]
                /\ \A i, j \in bands :
                     i < j => IF disjoint THEN SameResult(i, j) ELSE SharedBoundary(i, j)

\* C28 as stated: the zone classifier is total and single-valued, OUT below
\* distance 400 and outside [0.25 pi, 0.75 pi], and the nine bands partition the
\* arc: no gap, and no direction in two bands with different results
C28_ZonesPartition == [][Classified(TRUE)]_vars

\* C28: the zone classifier is total and single-valued, OUT below distance 400
\* and outside [0.25 pi, 0.75 pi]; the nine bands cover the arc without a gap and
\* overlap only in the boundary angle that two neighbouring bands share, where
\* the result is that of the band listed first
C28_ZonesCover == [][Classified(FALSE)]_vars

\* the direction 0.34 pi, which the first OUT band and the first H band both
\* hold, has been classified beyond the fence: OUT
C28_BoundaryClassified ==
  /\ event.step = "checkHitResult"
  /\ event.log = <<"OUT">>
  /\ ball # null
  /\ ball[1].x = positionAt(34, 1000).x
  /\ ball[1].y = positionAt(34, 1000).y
  /\ bandsOf(Px(530) - ball[1].y, ball[1].x - Px(500)) = {1, 2}


\* the width of band i of the zone table, in hundredths of pi
width(i) == zones[i][2] - zones[i][1]

\* the directions beyond the fence, out of every hundredth of pi, that
\* checkHitResult classifies as result
share(result) ==
  Cardinality({a \in ZoneAngles :
                 checkHitResult(positionAt(a, 1000).x, positionAt(a, 1000).y) = result})

\* the table has nine bands, the center one is the home run band and the two
\* outer ones are OUT bands, no other band being wider than these two
OuterBandsWidest ==
  /\ Len(zones) = 9
  /\ zones[5][3] = "HR"
  /\ zones[1][3] = "OUT" /\ zones[9][3] = "OUT"
  /\ \A i \in 1..9 : width(i) <= width(1) /\ width(i) <= width(9)

\* C29 as stated: among the nine bands by which a position is classified, the
\* center (home run) band is the narrowest and the two outer (OUT) bands are the
\* widest
C29_CenterNarrowest ==
  event.step = "checkHitResult" =>
    /\ OuterBandsWidest
    /\ \A i \in 1..9 : width(5) <= width(i)

\* C29: among the nine bands by which a position is classified, the two outer
\* (OUT) bands are the widest; the center (home run) band is
\* narrower than every band but the two triple bands beside it, which are the
\* narrowest; of all results the home run has the smallest share of the arc
C29_HomeRunHardest ==
  event.step = "checkHitResult" =>
    /\ OuterBandsWidest
    /\ \A i \in 1..9 \ {4, 5, 6} : width(5) < width(i)
    /\ zones[4][3] = "3B" /\ zones[6][3] = "3B"
    /\ \A i \in 1..9 : width(4) <= width(i) /\ width(6) <= width(i)
    /\ width(4) < width(5)
    /\ \A result \in HitResults \ {"HR"} : share("HR") < share(result)

\* a direction inside the left triple band, 0.46 pi, has been classified beyond
\* the fence: a triple
C29_TripleBand ==
  /\ event.step = "checkHitResult"
  /\ event.log = <<"3B">>
  /\ ball # null
  /\ ball[1].x = positionAt(46, 1000).x
  /\ ball[1].y = positionAt(46, 1000).y
  /\ width(4) = 3


\* the same pitch is in flight before and after the step
StaysInFlight == pitch # null /\ pitch' # null /\ pitch'[1].id = pitch[1].id

\* C30: for every pitch type, progress grows by the increment 0.02 with every tick
\* the pitch is in flight and never decreases, and it stays within [0, 1] (0 to 50
\* increments) until the pitch is judged or swung at
C30_ProgressInUnitInterval ==
  /\ [](pitch # null => pitch[1].progress \in 0..50)
  /\ [][StaysInFlight =>
          /\ pitch'[1].progress >= pitch[1].progress
          /\ (event'.step = "Tick" /\ event'.log = <<>>)
                => pitch'[1].progress = pitch[1].progress + TicksPerStep]_vars


\* C31: each won game triggers exactly one delayed advance: while the victory
\* screen of a win is up (showVictory set, the reset still to come) no step takes
\* the tournament-win transition again, so that at most one delayed advance is
\* pending and the advance that fires leaves the round one above the round won
C31_OneAdvancePerWin ==
  /\ [](Len(advanceTimers) <= 1)
  /\ [][/\ Logged(event', "win") => ~gameState.showVictory
        /\ Fires("next") =>
             gameState'.tournamentRound = Head(advanceTimers).tournamentRound + 1]_vars


\* C32: every pitch that is created is eventually removed, by a looking judgement
\* or by a swing: with the interval callback running and React rendering, no
\* pitch of any type stays in flight forever
C32_PitchRemoved == (pitch # null) ~> (pitch = null)

\* the pitch that was thrown has crossed the judgement plane unswung and is gone
C32_PitchJudged ==
  /\ pitchesThrown = 1
  /\ event.step = "Tick"
  /\ Logged(event, "lookingStrike") \/ Logged(event, "lookingBall")
  /\ pitch = null
  /\ judgements[lastJudgedPitchRef] = 1


\* the next position of the batted ball b meets a terminal condition: the fence
\* (distance >= 490 from its origin), outside the playable rectangle, or foul
\* territory beyond distance 300
Terminal(b) ==
  LET newX == b.x + b.vx
      newY == b.y + b.vy
      dx == newX - b.startX
      dy == b.startY - newY
      distance2 == dx * dx + dy * dy
  IN  \/ distance2 >= Px(490) * Px(490)
      \/ newY < 0 \/ newX < 0 \/ newX > Px(1000)
      \/ /\ AngleLT(dy, dx, 25) \/ AngleGT(dy, dx, 75)
         /\ distance2 > Px(300) * Px(300)

\* C33: every batted ball that is created is eventually removed, with the interval
\* callback running and React rendering, and the tick that removes it finds a
\* terminal condition: the fence at distance 490 from the ball's origin, the edge
\* of the playable rectangle, or foul territory beyond distance 300
C33_BallRemoved ==
  /\ (ball # null) ~> (ball = null)
  /\ [][(event'.step = "Tick" /\ ball # null /\ ball' = null) => Terminal(ball[1])]_vars
  /\ [][(event'.step = "Tick" /\ ball # null /\ Terminal(ball[1])) => ball' = null]_vars

\* the ball that was hit has reached the fence, has been classified and is gone
C33_BallLanded ==
  /\ event.step = "Tick"
  /\ \E r \in HitResults : event.log = <<r>>
  /\ ball = null
  /\ pitch = null
  /\ resolutions[lastProcessedBallRef] = 1


\* a stopping pitch is in flight
Stopping == pitch # null /\ pitch[1].type = "stopping"

\* the stopping pitch in flight has moved in n of its ticks, at its original
\* velocity
MovedTicks(n) ==
  /\ pitch[1].vx = pitchVx("stopping", gameState.tournamentType,
                           gameState.tournamentRound, 0, 0)
       \/ pitch[1].vx = pitchVx("stopping", gameState.tournamentType,
                                gameState.tournamentRound, -38, 0)
  /\ pitch[1].vy = pitch[1].initialVy
  /\ pitch[1].x = pitch[1].startX + n * pitch[1].vx
  /\ pitch[1].y = pitch[1].startY + n * pitch[1].vy

\* a stopping pitch in flight has not moved in frozen of its ticks: none before
\* the tick that takes its progress into [0.25, 0.35] (the 13th), then stopped
\* where the 12th tick left it, and after frozen ticks in motion again at its
\* original velocity
StoppedFor(frozen) ==
  Stopping =>
    LET k == pitch[1].progress
    IN  IF k < 13 THEN ~pitch[1].isStopped /\ MovedTicks(k)
        ELSE IF k < 13 + frozen THEN pitch[1].isStopped /\ MovedTicks(12)
        ELSE ~pitch[1].isStopped /\ MovedTicks(k - frozen)

\* the step stops the stopping pitch in flight
Stops == Stopping /\ pitch' # null /\ ~pitch[1].isStopped /\ pitch'[1].isStopped

\* C34: a stopping pitch freezes its position exactly once per flight, when its
\* progress first enters [0.25, 0.35]; the position is unchanged for exactly
\* stopDuration = 20 ticks, after which the pitch resumes linear motion at its
\* original velocity and never stops again
C34_StopsTwentyTicks ==
  /\ [](StoppedFor(20))
  /\ [][Stops => pitch[1].progress = 12]_vars


PitchTypeNames ==
  {"straight", "fast", "curve-left", "curve-right", "changeup", "slider", "sinker",
   "gyroball", "fastball", "knuckleball", "cutter", "vanishing", "stopping"}

\* the types a pitch may have in round round of tier type
EligibleTypes(type, round) ==
  IF type = "koshien"
    THEN {"straight"}
           \cup (IF round >= 2 THEN {"curve-left", "curve-right", "changeup"} ELSE {})
           \cup (IF round >= 3 THEN {"slider", "sinker", "gyroball"} ELSE {})
  ELSE IF type = "npb" THEN PitchTypeNames \ {"fastball", "vanishing", "stopping"}
  ELSE PitchTypeNames

\* C35: every pitch created has a type in the eligible set of the tier and round
\* current at its creation: koshien round 1 only straight, from round 2 also
\* curve-left, curve-right and changeup, from round 3 also slider, sinker and
\* gyroball, never fast or fastball; npb never fastball, vanishing or stopping; a
\* vanishing or stopping pitch exists only while the tier is mlb
C35_EligibleTypes ==
  /\ [](pitch # null /\ pitch[1].type \in {"vanishing", "stopping"}
          => gameState.tournamentType = "mlb")
  /\ [][event'.step = "PitchTimerFire" =>
          /\ pitch' # null
          /\ pitch'[1].type \in EligibleTypes(gameState.tournamentType,
                                              gameState.tournamentRound)]_vars


\* a vanishing pitch is in flight
Vanishing == pitch # null /\ pitch[1].type = "vanishing"

\* C36: every vanishing pitch that is not swung at is invisible exactly while its
\* progress lies in [0.4, 0.7] (ticks 20 to 35) and is visible again before it
\* reaches the judgement plane: the tick that judges it finds it visible, past
\* the window
C36_VanishesAndReappears ==
  /\ [](Vanishing => (~pitch[1].isVisible <=> pitch[1].progress \in 20..35))
  /\ [][(Vanishing /\ LookingJudgement) =>
          pitch[1].isVisible /\ pitch[1].progress >= 35]_vars


\* playerScore is the player's entry for the 9th inning on the scoreboard, and the
\* entries of the other innings are 0
ScoreboardAgrees ==
  /\ gameState.playerInningScores[9] = gameState.playerScore
  /\ \A i \in 1..8 : gameState.playerInningScores[i] = 0

\* C37: playerScore equals the player's 9th-inning scoreboard entry and all other
\* player inning entries are 0: every step from a state in which this holds, be it
\* a hit, a bases-loaded walk or a reset, leads to a state in which it holds, every
\* run added to playerScore being added to the inning entry too
C37_ScoreboardAgrees ==
  [][/\ ScoreboardAgrees => ScoreboardAgrees'
     /\ gameState'.playerScore > gameState.playerScore =>
          gameState'.playerInningScores[9] - gameState.playerInningScores[9]
            = gameState'.playerScore - gameState.playerScore]_vars


\* C38: in every reachable state isWinner implies isGameOver, tier mlb and round
\* 5; isWinner is set only by the step that wins round 5 of mlb and is cleared
\* only by restartGame or backToTop
C38_WinnerOnlyAtTheTop ==
  /\ [](gameState.isWinner =>
          /\ gameState.isGameOver
          /\ gameState.tournamentType = "mlb"
          /\ gameState.tournamentRound = 5)
  /\ [][/\ (~gameState.isWinner /\ gameState'.isWinner) =>
             /\ Logged(event', "win")
             /\ gameState.tournamentType = "mlb"
             /\ gameState.tournamentRound = 5
        /\ (gameState.isWinner /\ ~gameState'.isWinner) =>
             event'.step \in {"restartGame", "backToTop"}]_vars


\* C39: continue after a loss keeps the tier and the round, clears isGameOver,
\* resets outs, playerScore, bases and the count to zero and empty, clears the
\* pitch and the ball, and sets cpuScore to a value in 3..5
C39_ContinueKeepsRound ==
  [][event'.step = "continueGame" =>
       /\ gameState.isGameOver /\ ~gameState.isWinner
       /\ gameState'.tournamentType = gameState.tournamentType
       /\ gameState'.tournamentRound = gameState.tournamentRound
       /\ ~gameState'.isGameOver
       /\ gameState'.outs = 0
       /\ gameState'.playerScore = 0
       /\ gameState'.bases = <<FALSE, FALSE, FALSE>>
       /\ balls' = 0 /\ strikes' = 0
       /\ pitch' = null /\ ball' = null
       /\ gameState'.cpuScore \in 3..5]_vars

\* the lost final of koshien has been continued: round 5 again, against 3 runs
C39_FinalContinued ==
  /\ event.step = "continueGame"
  /\ gameState.tournamentType = "koshien"
  /\ gameState.tournamentRound = 5
  /\ gameState.cpuScore = 3
  /\ ~gameState.isGameOver
  /\ gameState.outs = 0
  /\ gameState.playerScore = 0
  /\ pitch = null /\ ball = null

=============================================================================
